---- MODULE Spec2Model ----
(***************************************************************************)
(* Model of the item-identity resolution and version-reconciliation        *)
(* pipeline of published-status-cb:                                        *)
(*   utils/dataProcessing.ts   normalizer, datasource parser, context      *)
(*                             walker, reconciler, report assembler        *)
(*   utils/graphqlQueries.ts   bulk queries and local path resolver        *)
(*   hooks/useItemInformation  the fetch cycle (src/unnamed/part_002)      *)
(*   utils/hooks/useXMCClient  the client initialisation with its retry     *)
(*                                                                         *)
(* JavaScript strings are sequences of one-character strings, so that the  *)
(* string functions (replace, toUpperCase, split, trim, startsWith,        *)
(* substring, the GUID regular expression) are computed and not assumed.   *)
(***************************************************************************)
EXTENDS Integers, Sequences, FiniteSets, TLC

(***************************************************************************)
(* Bounds of the model.                                                    *)
(***************************************************************************)
\* longest identifier list given to the reconciler on its own
MaxIds == 3

VARIABLES
    \* ---- useItemInformation: React state of the hook
    isInitialized,        \* useMarketplaceClient(): client present and initialized
    data,                 \* ItemInformationResponse | null
    items,                \* ProcessedItemInfo[]
    loading,              \* boolean
    error,                \* string | null
    \* ---- fetchItemInformation: locals of each fetch cycle
    pc,                   \* position of the cycle
    itemIds,              \* let itemIds
    currentItemId,        \* let currentItemId
    pageContext,          \* let pageContext
    localPathsToResolve,  \* let localPathsToResolve
    currentPagePath,      \* let currentPagePath
    sitecoreContextId,    \* let sitecoreContextId
    resolveCall,          \* the resolveLocalDatasourcePaths call of the cycle
    authoringCall,        \* the getItemsFromAuthoring call of the cycle
    liveCall,             \* the getItemsFromLive call of the cycle
    \* ---- a single call of one exported function, for the function-level checks
    callee,               \* name of the function called, "" before the call
    args,                 \* its arguments
    ret,                  \* its result
    \* ---- useXMCClient (utils/hooks/useXMCClient.ts)
    opts,                 \* { retryAttempts, autoInit } after the defaults
    isInSitecore,         \* window !== window.parent
    marketplaceClient,    \* useMarketplaceClient().client is there
    mounted,              \* the effect of lines 133-146 has run
    xmcClient,            \* module variable xmcClient is set
    xmcState,             \* XMCClientState
    isInitializingRef,    \* isInitializingRef.current
    chain                 \* the running chain of initializeClient calls

hookVars == <<isInitialized, data, items, loading, error>>
cycleVars == <<pc, itemIds, currentItemId, pageContext, localPathsToResolve,
               currentPagePath, sitecoreContextId, resolveCall, authoringCall, liveCall>>
callVars == <<callee, args, ret>>
clientVars == <<opts, isInSitecore, marketplaceClient, mounted, xmcClient, xmcState,
                isInitializingRef, chain>>
vars == <<hookVars, cycleVars, callVars, clientVars>>

(***************************************************************************)
(* Strings.                                                                *)
(***************************************************************************)
LowerCase == <<"a","b","c","d","e","f","g","h","i","j","k","l","m",
               "n","o","p","q","r","s","t","u","v","w","x","y","z">>
UpperCase == <<"A","B","C","D","E","F","G","H","I","J","K","L","M",
               "N","O","P","Q","R","S","T","U","V","W","X","Y","Z">>
HexChars == {"0","1","2","3","4","5","6","7","8","9",
             "A","B","C","D","E","F","a","b","c","d","e","f"}
WhiteSpace == {" ", "\t", "\n"}

\* the upper-case letter of each lower-case letter
UpperOf ==
    [ch \in {LowerCase[i] : i \in 1..26} |->
        UpperCase[CHOOSE i \in 1..26 : LowerCase[i] = ch]]

toUpperChar(c) == IF c \in DOMAIN UpperOf THEN UpperOf[c] ELSE c

\* a function on 1..n as a sequence value
tuple(f) == f \o <<>>

\* String.prototype.toUpperCase
toUpperCase(s) == tuple([i \in 1..Len(s) |-> toUpperChar(s[i])])

\* s.replace(/[...]/g, '') for a character class
stripChars(s, class) == SelectSeq(s, LAMBDA ch : ch \notin class)

\* String.prototype.startsWith
startsWith(s, prefix) ==
    /\ Len(s) >= Len(prefix)
    /\ SubSeq(s, 1, Len(prefix)) = prefix

\* s.substring(n), n counted from 0
\* the mutant cuts nothing off
substringFrom_whole(s, n) == s

substringFrom(s, n) == SubSeq(s, n + 1, Len(s))

\* s.substring(a, b), counted from 0, end exclusive
substring(s, a, b) == SubSeq(s, a + 1, b)

RECURSIVE trimStart(_)
trimStart(s) ==
    IF s # <<>> /\ Head(s) \in WhiteSpace THEN trimStart(Tail(s)) ELSE s

RECURSIVE trimEnd(_)
trimEnd(s) ==
    IF s # <<>> /\ s[Len(s)] \in WhiteSpace
    THEN trimEnd(SubSeq(s, 1, Len(s) - 1)) ELSE s

\* String.prototype.trim
trim(s) == trimEnd(trimStart(s))

\* String.prototype.split for a one-character separator
RECURSIVE split(_, _)
split(s, sep) ==
    IF \A i \in 1..Len(s) : s[i] # sep
    THEN <<s>>
    ELSE LET i == CHOOSE k \in 1..Len(s) :
                     s[k] = sep /\ \A j \in 1..(k - 1) : s[j] # sep
         IN <<SubSeq(s, 1, i - 1)>> \o split(SubSeq(s, i + 1, Len(s)), sep)

\* Array.prototype.map
mapSeq(xs, F(_)) == tuple([i \in 1..Len(xs) |-> F(xs[i])])

\* Array.prototype.includes
\* the mutant finds nothing
includes_never(xs, x) == FALSE

includes(xs, x) == \E i \in 1..Len(xs) : xs[i] = x

\* forEach(x => { if (!acc.includes(x)) acc.push(x) })
RECURSIVE pushAllNew(_, _)
pushAllNew(acc, xs) ==
    IF xs = <<>> THEN acc
    ELSE pushAllNew(IF includes(acc, Head(xs)) THEN acc ELSE Append(acc, Head(xs)),
                    Tail(xs))

rep(ch, n) == tuple([i \in 1..n |-> ch])

\* "{" + s + "}"
braced(s) == <<"{">> \o s \o <<"}">>

\* the five groups of a GUID joined with hyphens
hyphenate(g1, g2, g3, g4, g5) ==
    g1 \o <<"-">> \o g2 \o <<"-">> \o g3 \o <<"-">> \o g4 \o <<"-">> \o g5

(***************************************************************************)
(* JavaScript values of untyped fields: a tag and a string.                *)
(***************************************************************************)
Undefined == [t |-> "undefined", v |-> <<>>]
Str(s) == [t |-> "string", v |-> s]
Num(digits) == [t |-> "number", v |-> digits]

\* truthiness: undefined, "" and 0 are falsy
truthy(x) ==
    \/ x.t = "string" /\ x.v # <<>>
    \/ x.t = "number" /\ x.v # <<"0">>

\* a || b
or(a, b) == IF truthy(a) THEN a ELSE b

\* how a call ended: with a value, or with an exception
Returned(value) == [st |-> "returned", value |-> value]
Threw(message) == [st |-> "threw", value |-> message]

(***************************************************************************)
(* Identifier Normalizer (dataProcessing.ts 15-42).                        *)
(***************************************************************************)
normalizeItemId(itemId) == toUpperCase(stripChars(itemId, {"{", "}", "-"}))

formatGuidWithoutHyphens(guid) == toUpperCase(stripChars(guid, {"{", "}", "-"}))

\* the mutant ends the last group one character early
formatGuidWithHyphens_shortGroup(guid) ==
    LET clean == toUpperCase(stripChars(guid, {"{", "}", "-"}))
    IN IF Len(clean) # 32 THEN guid
       ELSE substring(clean, 0, 8) \o <<"-">> \o substring(clean, 8, 12) \o <<"-">>
            \o substring(clean, 12, 16) \o <<"-">> \o substring(clean, 16, 20)
            \o <<"-">> \o substring(clean, 20, 31)

formatGuidWithHyphens(guid) ==
    LET clean == toUpperCase(stripChars(guid, {"{", "}", "-"}))
    IN IF Len(clean) # 32 THEN guid
       ELSE substring(clean, 0, 8) \o <<"-">> \o substring(clean, 8, 12) \o <<"-">>
            \o substring(clean, 12, 16) \o <<"-">> \o substring(clean, 16, 20)
            \o <<"-">> \o substring(clean, 20, 32)

\* /^[{]?[0-9A-Fa-f]{8}-[0-9A-Fa-f]{4}-[0-9A-Fa-f]{4}-[0-9A-Fa-f]{4}-[0-9A-Fa-f]{12}[}]?$/
isValidGuid(str) ==
    LET a == IF str # <<>> /\ Head(str) = "{" THEN Tail(str) ELSE str
        b == IF a # <<>> /\ a[Len(a)] = "}" THEN SubSeq(a, 1, Len(a) - 1) ELSE a
    IN /\ Len(b) = 36
       /\ \A i \in 1..36 :
            IF i \in {9, 14, 19, 24} THEN b[i] = "-" ELSE b[i] \in HexChars

(***************************************************************************)
(* Datasource Expression Parser (dataProcessing.ts 48-87).                 *)
(***************************************************************************)
LocalPrefix == <<"l","o","c","a","l",":","/">>
SitecorePrefix == <<"/","s","i","t","e","c","o","r","e","/">>
QueryPrefix == <<"q","u","e","r","y",":">>

NoDatasources == [directIds |-> <<>>, localPaths |-> <<>>]

RECURSIVE parseSegments(_, _)
parseSegments(datasources, acc) ==
    IF datasources = <<>> THEN acc
    ELSE LET ds == Head(datasources)
             next ==
                 IF isValidGuid(ds)
                 THEN [acc EXCEPT !.directIds = Append(@, normalizeItemId(ds))]
                 ELSE IF startsWith(ds, LocalPrefix)
                 THEN [acc EXCEPT !.localPaths = Append(@, substringFrom(ds, 7))]
                 ELSE IF startsWith(ds, SitecorePrefix)
                 THEN [acc EXCEPT !.localPaths = Append(@, ds)]
                 ELSE IF startsWith(ds, QueryPrefix)
                 THEN acc   \* logged, not handled
                 ELSE acc   \* unknown format, logged
         IN parseSegments(Tail(datasources), next)

parseDatasourceValue(datasource) ==
    IF ~truthy(datasource) \/ datasource.t # "string"
    THEN NoDatasources
    ELSE parseSegments(
             SelectSeq(mapSeq(split(datasource.v, "|"), trim), LAMBDA ds : Len(ds) > 0),
             NoDatasources)

(***************************************************************************)
(* Context Graph Walker (dataProcessing.ts 93-287).                        *)
(*                                                                         *)
(* A page context is a record                                              *)
(*   [kind, pageInfo, siteInfo, itemId, id, pageId]                        *)
(* with kind "object", or "null" for a context that is no object;          *)
(* pageInfo is [kind, itemId, id, pageId, path, presentationDetails] with  *)
(* kind "undefined", "object", or "string" (present but no object);        *)
(* presentationDetails is [kind, parses, devices]: kind "undefined",       *)
(* "string" (JSON text, parses says whether JSON.parse accepts it) or      *)
(* "object"; a device is [kind, renderings, placeholders], kind "null" for *)
(* an array element whose property access throws; an absent or non-array   *)
(* devices / renderings / placeholders property is the empty sequence,     *)
(* which the code skips in the same way.                                   *)
(***************************************************************************)
\* one rendering: rendering.dataSource || rendering.datasource, parsed and
\* merged into the two deduplicated lists
collectRendering(rendering, acc) ==
    IF truthy(rendering.dataSource) \/ truthy(rendering.datasource)
    THEN LET parsed == parseDatasourceValue(or(rendering.dataSource, rendering.datasource))
         IN [directIds |-> pushAllNew(acc.directIds, parsed.directIds),
             localPaths |-> pushAllNew(acc.localPaths, parsed.localPaths)]
    ELSE acc

RECURSIVE walkRenderings(_, _)
walkRenderings(renderings, acc) ==
    IF renderings = <<>> THEN acc
    ELSE walkRenderings(Tail(renderings), collectRendering(Head(renderings), acc))

RECURSIVE walkPlaceholders(_, _)
walkPlaceholders(placeholders, acc) ==
    IF placeholders = <<>> THEN acc
    ELSE walkPlaceholders(Tail(placeholders),
                          walkRenderings(Head(placeholders).renderings, acc))

\* a null device throws a TypeError, which the catch of line 170 swallows:
\* what was collected before it is returned
RECURSIVE walkDevices(_, _)
walkDevices(devices, acc) ==
    IF devices = <<>> THEN acc
    ELSE IF Head(devices).kind = "null" THEN acc
    ELSE walkDevices(Tail(devices),
                     walkPlaceholders(Head(devices).placeholders,
                                      walkRenderings(Head(devices).renderings, acc)))

extractDatasourcesFromPresentationDetails(presentationDetails) ==
    IF presentationDetails.kind = "undefined" THEN NoDatasources
    ELSE IF presentationDetails.kind = "string" /\ ~presentationDetails.parses
    THEN NoDatasources
    ELSE walkDevices(presentationDetails.devices, NoDatasources)

EmptyExtraction == [itemIds |-> <<>>, localPathsToResolve |-> <<>>, currentPagePath |-> <<>>]

\* if (!itemIds.includes(cleanCurrentId)) itemIds.unshift(cleanCurrentId)
unshiftCurrent(list, cleanCurrentId) ==
    IF includes(list, cleanCurrentId) THEN list ELSE <<cleanCurrentId>> \o list

extractItemIdsWithLocalPaths(context) ==
    IF context.kind # "object" THEN EmptyExtraction
    ELSE
    LET pageInfo == context.pageInfo
        siteInfo == context.siteInfo
        hasPageInfo == pageInfo.kind = "object"
        path == IF hasPageInfo /\ truthy(pageInfo.path) THEN pageInfo.path.v ELSE <<>>
        fromPageInfo ==
            IF hasPageInfo THEN or(or(pageInfo.itemId, pageInfo.id), pageInfo.pageId)
            ELSE Undefined
        walked == hasPageInfo /\ pageInfo.presentationDetails.kind # "undefined"
        found ==
            IF walked
            THEN extractDatasourcesFromPresentationDetails(pageInfo.presentationDetails)
            ELSE NoDatasources
        collected == pushAllNew(<<>>, found.directIds)
    IN IF walked /\ Len(found.localPaths) > 0
       THEN \* lines 239-255: early return with the local paths
            [itemIds |-> IF truthy(fromPageInfo) /\ fromPageInfo.t = "string"
                         THEN unshiftCurrent(collected, normalizeItemId(fromPageInfo.v))
                         ELSE collected,
             localPathsToResolve |-> found.localPaths,
             currentPagePath |-> path]
       ELSE
       LET fromSiteInfo ==
               IF ~truthy(fromPageInfo) /\ siteInfo.kind = "object"
               THEN or(siteInfo.itemId, siteInfo.id)
               ELSE fromPageInfo
           currentId ==
               IF ~truthy(fromSiteInfo)
               THEN or(or(context.itemId, context.id), context.pageId)
               ELSE fromSiteInfo
       IN IF truthy(currentId) /\ currentId.t = "string"
          THEN [itemIds |-> unshiftCurrent(collected, normalizeItemId(currentId.v)),
                localPathsToResolve |-> <<>>,
                currentPagePath |-> path]
          ELSE EmptyExtraction

\* the identifier the walker takes for the current page: the value its three
\* lookups (pageInfo, siteInfo, top level) end with
currentIdOf(context) ==
    IF context.kind # "object" THEN Undefined
    ELSE
    LET pageInfo == context.pageInfo
        siteInfo == context.siteInfo
        fromPageInfo ==
            IF pageInfo.kind = "object"
            THEN or(or(pageInfo.itemId, pageInfo.id), pageInfo.pageId)
            ELSE Undefined
        fromSiteInfo ==
            IF ~truthy(fromPageInfo) /\ siteInfo.kind = "object"
            THEN or(siteInfo.itemId, siteInfo.id)
            ELSE fromPageInfo
    IN IF ~truthy(fromSiteInfo)
       THEN or(or(context.itemId, context.id), context.pageId)
       ELSE fromSiteInfo

(***************************************************************************)
(* Response Reconciler (dataProcessing.ts 292-358, 405-437).               *)
(*                                                                         *)
(* A result envelope (ItemQueryResult) is a record                         *)
(*   [kind, error, data, slots, errors]                                    *)
(* kind "null" for a null or undefined response, else "object"; error is   *)
(* whether response.error is set; data is "undefined" (no response.data),  *)
(* "nodata" (response.data without .data) or "present"; slots[i + 1] is    *)
(* data.data["item" + i]; errors are the messages of data.errors.  A slot  *)
(* is [present, version, name, path, template, language]; "" is an absent  *)
(* or empty string field, version 0 an absent or zero version.  A null     *)
(* publishedVersion is Null.                                               *)
(***************************************************************************)
Null == -1

AbsentSlot ==
    [present |-> FALSE, version |-> 0, name |-> "", path |-> "",
     template |-> "", language |-> ""]

\* determineItemType: itemId === currentItemId
determineItemType(itemId, currentId) ==
    IF Str(itemId) = currentId THEN "current" ELSE "reference"

\* validateResponse; reading response.error of a null response throws
\* the mutant returns no data along with GraphQL errors
validateResponse_errorsDropData(response) ==
    IF response.kind = "null"
    THEN [threw |-> TRUE, isValid |-> FALSE, errors |-> <<>>, hasData |-> FALSE,
          data |-> <<>>]
    ELSE IF response.error
    THEN [threw |-> FALSE, isValid |-> FALSE, errors |-> <<"Response error">>,
          hasData |-> FALSE, data |-> <<>>]
    ELSE IF response.data # "present"
    THEN [threw |-> FALSE, isValid |-> FALSE, errors |-> <<"No data in response">>,
          hasData |-> FALSE, data |-> <<>>]
    ELSE [threw |-> FALSE,
          isValid |-> Len(response.errors) = 0,
          errors |-> tuple([i \in 1..Len(response.errors) |->
                               "GraphQL error: " \o response.errors[i]]),
          hasData |-> Len(response.errors) = 0,
          data |-> IF Len(response.errors) = 0 THEN response.slots ELSE <<>>]

validateResponse(response) ==
    IF response.kind = "null"
    THEN [threw |-> TRUE, isValid |-> FALSE, errors |-> <<>>, hasData |-> FALSE,
          data |-> <<>>]
    ELSE IF response.error
    THEN [threw |-> FALSE, isValid |-> FALSE, errors |-> <<"Response error">>,
          hasData |-> FALSE, data |-> <<>>]
    ELSE IF response.data # "present"
    THEN [threw |-> FALSE, isValid |-> FALSE, errors |-> <<"No data in response">>,
          hasData |-> FALSE, data |-> <<>>]
    ELSE [threw |-> FALSE,
          isValid |-> Len(response.errors) = 0,
          errors |-> tuple([i \in 1..Len(response.errors) |->
                               "GraphQL error: " \o response.errors[i]]),
          hasData |-> TRUE,
          data |-> response.slots]

\* validation.data?.[`item${index}`], index counted from 0
\* the mutant reads the neighbouring alias
itemAt_nextAlias(validation, index) ==
    IF validation.hasData /\ index + 2 <= Len(validation.data)
          /\ validation.data[index + 2].present
    THEN validation.data[index + 2]
    ELSE AbsentSlot

itemAt(validation, index) ==
    IF validation.hasData /\ index + 1 <= Len(validation.data)
          /\ validation.data[index + 1].present
    THEN validation.data[index + 1]
    ELSE AbsentSlot

\* a || b || c on strings
orName(a, b, c) == IF a # "" THEN a ELSE IF b # "" THEN b ELSE c

\* isPublished && publishedVersion < latestVersion (line 338)
\* the mutant compares without asking isPublished: null < n holds for n > 0
outdated_unguarded(isPublished, publishedVersion, latestVersion) ==
    IF publishedVersion = Null THEN 0 < latestVersion
    ELSE publishedVersion < latestVersion

outdated(isPublished, publishedVersion, latestVersion) ==
    isPublished /\ publishedVersion < latestVersion

\* isPublished ? latestVersion - publishedVersion : latestVersion (line 350)
\* the mutant reports no difference for an unpublished item
difference_zeroUnpublished(isPublished, publishedVersion, latestVersion) ==
    IF isPublished THEN latestVersion - publishedVersion ELSE 0

difference(isPublished, publishedVersion, latestVersion) ==
    IF isPublished THEN latestVersion - publishedVersion ELSE latestVersion

\* the record pushed for one identifier (lines 328-354)
processedItem(itemId, index, authoringValidation, liveValidation, currentId) ==
    LET authoringItem == itemAt(authoringValidation, index)
        liveItem == itemAt(liveValidation, index)
        latestVersion == IF authoringItem.version # 0 THEN authoringItem.version ELSE 0
        publishedVersion == IF liveItem.version # 0 THEN liveItem.version ELSE Null
        isPublished == publishedVersion # Null
        isOutdated == outdated(isPublished, publishedVersion, latestVersion)
    IN [id |-> itemId,
        name |-> orName(authoringItem.name, liveItem.name, "Unknown Item"),
        path |-> authoringItem.path,
        latestVersion |-> latestVersion,
        publishedVersion |-> publishedVersion,
        isPublished |-> isPublished,
        isOutdated |-> isOutdated,
        versionDifference |-> difference(isPublished, publishedVersion, latestVersion),
        itemType |-> determineItemType(itemId, currentId),
        template |-> authoringItem.template,
        language |-> orName(authoringItem.language, liveItem.language, "en")]

processItemData(authoringResult, liveResult, ids, currentId) ==
    LET authoringValidation == validateResponse(authoringResult)
        liveValidation == validateResponse(liveResult)
    IN IF authoringValidation.threw \/ liveValidation.threw
       THEN Threw("Cannot read properties of null (reading 'error')")
       ELSE Returned(tuple([i \in 1..Len(ids) |->
                processedItem(ids[i], i - 1, authoringValidation, liveValidation, currentId)]))

(***************************************************************************)
(* Report Assembler (dataProcessing.ts 363-400).                           *)
(***************************************************************************)
countOf(list, Test(_)) == Len(SelectSeq(list, Test))

\* the mutant adds the counts of the report published before
generateSummary_carriedOver(list) ==
    LET before == IF data = [null |-> TRUE]
                  THEN [totalItems |-> 0, publishedItems |-> 0,
                        unpublishedItems |-> 0, outdatedItems |-> 0]
                  ELSE data.summary
    IN [totalItems |-> before.totalItems + Len(list),
        publishedItems |-> before.publishedItems
                              + countOf(list, LAMBDA item : item.isPublished),
        unpublishedItems |-> before.unpublishedItems
                              + countOf(list, LAMBDA item : ~item.isPublished),
        outdatedItems |-> before.outdatedItems
                              + countOf(list, LAMBDA item : item.isOutdated)]

generateSummary(list) ==
    [totalItems |-> Len(list),
     publishedItems |-> countOf(list, LAMBDA item : item.isPublished),
     unpublishedItems |-> countOf(list, LAMBDA item : ~item.isPublished),
     outdatedItems |-> countOf(list, LAMBDA item : item.isOutdated)]

\* 'unknown'
UnknownId == <<"u","n","k","n","o","w","n">>

SentinelItem ==
    [id |-> UnknownId, name |-> "No Current Item", path |-> "", latestVersion |-> 0,
     publishedVersion |-> Null, isPublished |-> FALSE, isOutdated |-> FALSE,
     versionDifference |-> 0, itemType |-> "current"]

\* the mutant takes what follows the first item as the referenced items
createItemInformationResponse_restAfterFirst(list) ==
    LET flagged == SelectSeq(list, LAMBDA item : item.itemType = "current")
    IN [currentItem |-> IF flagged # <<>> THEN flagged[1]
                        ELSE IF list # <<>> THEN list[1]
                        ELSE SentinelItem,
        referencedItems |-> IF list # <<>> THEN Tail(list) ELSE <<>>,
        summary |-> generateSummary(list)]

createItemInformationResponse(list) ==
    LET flagged == SelectSeq(list, LAMBDA item : item.itemType = "current")
        referencedItems == SelectSeq(list, LAMBDA item : item.itemType # "current")
        hasCurrent == flagged # <<>>
    IN [currentItem |-> IF hasCurrent THEN flagged[1]
                        ELSE IF list # <<>> THEN list[1]
                        ELSE SentinelItem,
        referencedItems |-> IF hasCurrent THEN referencedItems
                            ELSE IF list # <<>> THEN Tail(list) ELSE <<>>,
        summary |-> generateSummary(list)]

(***************************************************************************)
(* Dual-Endpoint Fetcher and Local Path Resolver (graphqlQueries.ts).      *)
(*                                                                         *)
(* A call is a record [st, query, value]: st is "pending" while the        *)
(* request is out, "fulfilled" with the envelope (or mapping) in value, or *)
(* "rejected" with the message in value; query is what was sent.  The      *)
(* client argument is the initialized marketplace client.  What the        *)
(* transport does is the outcome: "throws", or "returns" with a response.  *)
(***************************************************************************)
Pending(query) == [st |-> "pending", query |-> query, value |-> <<>>]
Fulfilled(query, value) == [st |-> "fulfilled", query |-> query, value |-> value]
Rejected(query, message) == [st |-> "rejected", query |-> query, value |-> message]

TransportThrows == [kind |-> "throws"]
TransportReturns(response) == [kind |-> "returns", response |-> response]

\* { data: { data: {} } }
EmptyResult ==
    [kind |-> "object", error |-> FALSE, data |-> "present", slots |-> <<>>, errors |-> <<>>]
\* { error }
ErrorResult ==
    [kind |-> "object", error |-> TRUE, data |-> "undefined", slots |-> <<>>, errors |-> <<>>]

TokenRequired == "sitecoreContextId is required for authoring GraphQL queries"

\* getItemsFromAuthoring up to its await (lines 25-77)
callAuthoring(ids, hasToken) ==
    IF Len(ids) = 0 THEN Fulfilled(ids, EmptyResult)
    ELSE IF ~hasToken THEN Rejected(ids, TokenRequired)
    ELSE Pending(ids)

\* getItemsFromAuthoring after its await (lines 79-94): the result as it is,
\* or { error } for a thrown exception
settleAuthoring(call, outcome) ==
    IF outcome.kind = "throws" THEN Fulfilled(call.query, ErrorResult)
    ELSE Fulfilled(call.query, outcome.response)

\* formatGuidForLive, and the path argument "{...}" of the live query
formatGuidForLive(guid) == formatGuidWithHyphens(guid)

\* getItemsFromLive up to its await (lines 107-140)
callLive(ids) ==
    IF Len(ids) = 0 THEN Fulfilled(<<>>, EmptyResult)
    ELSE Pending(mapSeq(ids, LAMBDA id : braced(formatGuidForLive(id))))

\* getItemsFromLive after its await (lines 142-164): fetch throws, the status
\* is not ok or the body is no JSON: { error }; else { data: result }, where
\* result is the body { data, errors }
\* the mutant lets the exception through
settleLive_rethrow(call, outcome) ==
    IF outcome.kind = "throws" THEN Rejected(call.query, "HTTP error")
    ELSE Fulfilled(call.query, outcome.response)

settleLive(call, outcome) ==
    IF outcome.kind = "throws" THEN Fulfilled(call.query, ErrorResult)
    ELSE Fulfilled(call.query, outcome.response)

DataSegment == <<"D","a","t","a","/">>

\* String.prototype.replace(pattern, '') for a string pattern: the first
\* occurrence only
removeFirst(s, pattern) ==
    LET hits == {k \in 1..(Len(s) - Len(pattern) + 1) :
                    SubSeq(s, k, k + Len(pattern) - 1) = pattern}
    IN IF hits = {} THEN s
       ELSE LET k == CHOOSE h \in hits : \A g \in hits : h <= g
            IN SubSeq(s, 1, k - 1) \o SubSeq(s, k + Len(pattern), Len(s))

\* the full paths of the resolution query (lines 272-275)
fullPaths(localPaths, basePath) ==
    mapSeq(localPaths,
           LAMBDA localPath : basePath \o <<"/">> \o DataSegment
                              \o removeFirst(localPath, DataSegment))

JsNull == [t |-> "null", v |-> <<>>]

\* result[key] = value on an object kept as a list of entries in insertion order
setEntry(result, key, value) ==
    IF \E i \in 1..Len(result) : result[i].key = key
    THEN tuple([i \in 1..Len(result) |->
                   IF result[i].key = key THEN [key |-> key, value |-> value]
                   ELSE result[i]])
    ELSE Append(result, [key |-> key, value |-> value])

\* item.itemId.replace(/[{}]/g, '').toUpperCase()
cleanResolvedId(itemId) == toUpperCase(stripChars(itemId, {"{", "}"}))

\* lines 314-326; a resolution slot is [present, itemId], itemId "" when absent
RECURSIVE resolvedEntries(_, _, _, _)
resolvedEntries(localPaths, slots, index, result) ==
    IF index > Len(localPaths) THEN result
    ELSE LET item == IF index <= Len(slots) THEN slots[index]
                     ELSE [present |-> FALSE, itemId |-> <<>>]
             value == IF item.present /\ item.itemId # <<>>
                      THEN Str(cleanResolvedId(item.itemId))
                      ELSE JsNull
         IN resolvedEntries(localPaths, slots, index + 1,
                            setEntry(result, localPaths[index], value))

\* lines 334-338
\* the mutant returns the empty result
nullEntries_none(localPaths, result) == <<>>

RECURSIVE nullEntries(_, _)
nullEntries(localPaths, result) ==
    IF localPaths = <<>> THEN result
    ELSE nullEntries(Tail(localPaths), setEntry(result, Head(localPaths), JsNull))

\* resolveLocalDatasourcePaths, given what client.mutate did; a response is
\* [kind, data, slots] like an envelope
resolveLocalDatasourcePaths(localPaths, outcome) ==
    IF Len(localPaths) = 0 THEN <<>>
    ELSE IF outcome.kind = "throws" THEN nullEntries(localPaths, <<>>)
    ELSE IF outcome.response.kind = "object" /\ outcome.response.data = "present"
    THEN resolvedEntries(localPaths, outcome.response.slots, 1, <<>>)
    ELSE <<>>

\* Object.values(resolvedPaths).forEach(id => { if (id && !itemIds.includes(id))
\* itemIds.push(id) }) (part_002 135-140)
\* the mutant puts a resolved identifier in front of the list
RECURSIVE addResolved_atFront(_, _)
addResolved_atFront(ids, entries) ==
    IF entries = <<>> THEN ids
    ELSE LET resolvedId == Head(entries).value
         IN addResolved_atFront(IF truthy(resolvedId) /\ ~includes(ids, resolvedId.v)
                                THEN <<resolvedId.v>> \o ids ELSE ids,
                                Tail(entries))

RECURSIVE addResolved(_, _)
addResolved(ids, entries) ==
    IF entries = <<>> THEN ids
    ELSE LET resolvedId == Head(entries).value
         IN addResolved(IF truthy(resolvedId) /\ ~includes(ids, resolvedId.v)
                        THEN Append(ids, resolvedId.v) ELSE ids,
                        Tail(entries))

(***************************************************************************)
(* Identifiers and datasource values the inputs are drawn from.            *)
(***************************************************************************)
\* 5ed52178-8f06-49be-9d4c-f191e650189e, the page of the walker's examples
PageGuid ==
    hyphenate(<<"5","e","d","5","2","1","7","8">>, <<"8","f","0","6">>,
              <<"4","9","b","e">>, <<"9","d","4","c">>,
              <<"f","1","9","1","e","6","5","0","1","8","9","e">>)

\* aaaaaaaa-bbbb-cccc-dddd-eeeeeeeeeeee, a datasource item
DatasourceGuid ==
    hyphenate(rep("a", 8), rep("b", 4), rep("c", 4), rep("d", 4), rep("e", 12))

\* 9c8262e4-6456-4946-b04e-d5873874615e, the item behind a local path
LocalGuid ==
    hyphenate(<<"9","c","8","2","6","2","e","4">>, <<"6","4","5","6">>,
              <<"4","9","4","6">>, <<"b","0","4","e">>,
              <<"d","5","8","7","3","8","7","4","6","1","5","e">>)

TextPath == <<"D","a","t","a","/","T","e","x","t"," ","1">>
PagePath == <<"/","s","i","t","e","c","o","r","e","/","h","o","m","e">>

\* "{AAAAAAAA-BBBB-CCCC-DDDD-EEEEEEEEEEEE}|local:/Data/Text 1"
DsGuidAndLocal ==
    braced(toUpperCase(DatasourceGuid)) \o <<"|">> \o LocalPrefix \o TextPath
\* the datasource item, lower case and unbraced
DsGuidLower == DatasourceGuid
\* the same item twice in one field, in two spellings, with blanks around them
DsGuidTwice ==
    <<" ">> \o toUpperCase(DatasourceGuid) \o <<" ","|"," ">> \o braced(DatasourceGuid)
\* the page itself as the datasource of one of its renderings
DsPage == braced(toUpperCase(PageGuid))
\* a datasource item and then the page itself
DsGuidThenPage == DatasourceGuid \o <<"|">> \o braced(PageGuid)
DsLocal == LocalPrefix \o TextPath
DsContentPath == SitecorePrefix \o <<"x">>
DsQuery == QueryPrefix \o <<"/","/","*">>

DatasourceValues ==
    {DsGuidAndLocal, DsGuidLower, DsGuidTwice, DsPage, DsLocal, DsContentPath, DsQuery}

Rendering(value) == [dataSource |-> Str(value), datasource |-> Undefined]
\* the lower-case field name, and a rendering without a datasource
RenderingLc(value) == [dataSource |-> Undefined, datasource |-> Str(value)]
RenderingNone == [dataSource |-> Undefined, datasource |-> Undefined]

Device(renderings, placeholders) ==
    [kind |-> "object", renderings |-> renderings, placeholders |-> placeholders]
NullDevice == [kind |-> "null", renderings |-> <<>>, placeholders |-> <<>>]
Placeholder(renderings) == [renderings |-> renderings]

NoPresentation == [kind |-> "undefined", parses |-> FALSE, devices |-> <<>>]
PresentationObject(devices) == [kind |-> "object", parses |-> TRUE, devices |-> devices]
PresentationJson(devices) == [kind |-> "string", parses |-> TRUE, devices |-> devices]
PresentationBadJson == [kind |-> "string", parses |-> FALSE, devices |-> <<>>]

\* device-level renderings: none, one or two datasource values
RenderingLists ==
    {<<>>} \cup {<<Rendering(a)>> : a \in DatasourceValues}
           \cup {<<Rendering(a), RenderingLc(b)>> : a \in DatasourceValues, b \in DatasourceValues}

\* placeholders of the device: none, or one with a rendering
PlaceholderLists ==
    {<<>>} \cup {<<Placeholder(<<Rendering(a)>>)>> : a \in {DsGuidLower, DsPage, DsLocal}}

Presentations ==
    {NoPresentation, PresentationBadJson,
     PresentationObject(<<>>),
     PresentationJson(<<Device(<<Rendering(DsGuidAndLocal)>>, <<>>)>>),
     PresentationObject(<<Device(<<RenderingNone, Rendering(DsGuidThenPage)>>, <<>>)>>),
     PresentationObject(<<Device(<<Rendering(DsGuidLower)>>, <<>>), NullDevice,
                          Device(<<Rendering(DsPage)>>, <<>>)>>),
     PresentationObject(<<Device(<<Rendering(DsGuidLower)>>, <<>>),
                          Device(<<Rendering(DsGuidTwice)>>, <<>>)>>)}
    \cup {PresentationObject(<<Device(rs, ps)>>) : rs \in RenderingLists, ps \in PlaceholderLists}

NoPageInfo ==
    [kind |-> "undefined", itemId |-> Undefined, id |-> Undefined, pageId |-> Undefined,
     path |-> Undefined, presentationDetails |-> NoPresentation]
\* pageInfo present but no object
StringPageInfo == [NoPageInfo EXCEPT !.kind = "string"]

PageInfos ==
    {NoPageInfo, StringPageInfo}
    \cup {[kind |-> "object", itemId |-> a, id |-> b, pageId |-> Undefined,
           path |-> Str(PagePath), presentationDetails |-> pd] :
            a \in {Undefined, Str(braced(toUpperCase(PageGuid)))},
            b \in {Undefined, Str(PageGuid), Num(<<"7">>)},
            pd \in Presentations}

NoSiteInfo == [kind |-> "undefined", itemId |-> Undefined, id |-> Undefined]
SiteInfos == {NoSiteInfo, [kind |-> "object", itemId |-> Undefined, id |-> Str(braced(PageGuid))]}

NullContext ==
    [kind |-> "null", pageInfo |-> NoPageInfo, siteInfo |-> NoSiteInfo,
     itemId |-> Undefined, id |-> Undefined, pageId |-> Undefined]

PageContexts ==
    {NullContext}
    \cup {[kind |-> "object", pageInfo |-> pi, siteInfo |-> si,
           itemId |-> Undefined, id |-> rootId, pageId |-> Undefined] :
            pi \in PageInfos, si \in SiteInfos,
            rootId \in {Undefined, Str(toUpperCase(PageGuid))}}

(***************************************************************************)
(* Result envelopes the inputs are drawn from.                             *)
(***************************************************************************)
Digits == <<"1","2","3","4","5","6","7","8","9">>

\* sample identifiers in canonical form: the page, the datasource item, the
\* item behind the local path, and further items
SampleIdList ==
    <<normalizeItemId(PageGuid), normalizeItemId(DatasourceGuid), normalizeItemId(LocalGuid)>>
    \o tuple([i \in 1..Len(Digits) |-> rep(Digits[i], 32)])

SampleId(i) == SampleIdList[i]

SampleIds(n) == SubSeq(SampleIdList, 1, n)

\* the versions an endpoint reports: none or zero, and two that differ
Versions == {0, 1, 2}

\* what the authoring endpoint can return at alias item{index}
AuthoringSlots(index) ==
    {AbsentSlot}
    \cup {[present |-> TRUE, version |-> v,
           name |-> "authoring item " \o ToString(index),
           path |-> "/sitecore/content/item " \o ToString(index),
           template |-> "Page", language |-> "en"] : v \in Versions}

\* what the live endpoint can return at alias item{index}: no path, no template
LiveSlots(index) ==
    {AbsentSlot}
    \cup {[present |-> TRUE, version |-> v,
           name |-> "live item " \o ToString(index),
           path |-> "", template |-> "", language |-> "en-US"] : v \in Versions}

\* the slot of alias item{index} with the given version
SlotWith(Slots(_), index, version) ==
    CHOOSE slot \in Slots(index) : slot.present /\ slot.version = version

\* every way to fill the aliases item0 .. item{n-1}
SlotLists(n, Slots(_)) ==
    {tuple(sl) : sl \in {f \in [1..n -> UNION {Slots(i - 1) : i \in 1..n}] :
                            \A i \in 1..n : f[i] \in Slots(i - 1)}}

NullEnvelope ==
    [kind |-> "null", error |-> FALSE, data |-> "undefined", slots |-> <<>>, errors |-> <<>>]
\* { error }
ErrorEnvelope ==
    [kind |-> "object", error |-> TRUE, data |-> "undefined", slots |-> <<>>, errors |-> <<>>]
\* {} and { data: {} }
NoDataEnvelopes ==
    {[kind |-> "object", error |-> FALSE, data |-> d, slots |-> <<>>, errors |-> <<>>] :
        d \in {"undefined", "nodata"}}
\* { data: { data: {...}, errors: [...] } }
DataEnvelope(slots, errors) ==
    [kind |-> "object", error |-> FALSE, data |-> "present", slots |-> slots,
     errors |-> errors]
\* { data: { data: {} } }
EmptyEnvelope == DataEnvelope(<<>>, <<>>)

\* the populated errors arrays, by their messages
ErrorLists == {<<"partial failure">>, <<"partial failure", "item not found">>}

\* the envelopes of one endpoint for n identifiers; a populated errors array
\* comes with every filling of the first alias
Envelopes(n, Slots(_)) ==
    {ErrorEnvelope} \cup NoDataEnvelopes
    \cup {DataEnvelope(sl, <<>>) : sl \in SlotLists(n, Slots)}
    \cup {DataEnvelope(sl, errors) :
            sl \in {x \in SlotLists(n, Slots) : \A i \in 2..n : x[i] = AbsentSlot},
            errors \in ErrorLists}

(***************************************************************************)
(* Initial state of the hook and of its fetch cycles.                      *)
(***************************************************************************)
\* the fetch cycles of one behaviour
Cycles == {1}

NullData == [null |-> TRUE]
NullError == "null"
NoCall == [st |-> "none", query |-> <<>>, value |-> <<>>]
NotCalled == [st |-> "none"]

\* DEFAULT_OPTIONS.retryAttempts
DefaultRetryAttempts == 3

NoError == "null"

\* useState of line 66
InitialState ==
    [client |-> FALSE, error |-> NoError, isLoading |-> FALSE, isInitialized |-> FALSE]

\* no call of initializeClient is running
NoChain == [pc |-> "idle", attempt |-> 0, made |-> 0, result |-> "none"]

\* useXMCClient() before its effect has run
ClientInit ==
    /\ opts = [retryAttempts |-> DefaultRetryAttempts, autoInit |-> TRUE]
    /\ isInSitecore = TRUE
    /\ marketplaceClient = FALSE
    /\ mounted = FALSE
    /\ xmcClient = FALSE
    /\ xmcState = InitialState
    /\ isInitializingRef = FALSE
    /\ chain = NoChain

HookInit ==
    /\ isInitialized = FALSE
    /\ data = NullData
    /\ items = <<>>
    /\ loading = FALSE
    /\ error = NullError

CycleInit ==
    /\ pc = [c \in Cycles |-> "idle"]
    /\ itemIds = [c \in Cycles |-> <<>>]
    /\ currentItemId = [c \in Cycles |-> Undefined]
    /\ pageContext = [c \in Cycles |-> NullContext]
    /\ localPathsToResolve = [c \in Cycles |-> <<>>]
    /\ currentPagePath = [c \in Cycles |-> <<>>]
    /\ sitecoreContextId = [c \in Cycles |-> FALSE]
    /\ resolveCall = [c \in Cycles |-> NoCall]
    /\ authoringCall = [c \in Cycles |-> NoCall]
    /\ liveCall = [c \in Cycles |-> NoCall]

NoFunctionCall ==
    /\ callee = ""
    /\ args = <<>>
    /\ ret = NotCalled

(***************************************************************************)
(* SpecWalker: one call of extractItemIdsWithLocalPaths on any page        *)
(* context of PageContexts.                                                *)
(***************************************************************************)
WalkerInit ==
    /\ HookInit
    /\ ClientInit
    /\ CycleInit
    /\ callee = "extractItemIdsWithLocalPaths"
    /\ args \in PageContexts
    /\ ret = NotCalled

CallWalker ==
    /\ callee = "extractItemIdsWithLocalPaths"
    /\ ret.st = "none"
    /\ ret' = Returned(extractItemIdsWithLocalPaths(args))
    /\ UNCHANGED <<hookVars, cycleVars, callee, args, clientVars>>

WalkerNext == CallWalker

SpecWalker == WalkerInit /\ [][WalkerNext]_vars

(***************************************************************************)
(* SpecReconciler: one call of processItemData on the first n sample       *)
(* identifiers, n <= MaxIds, with any pair of envelopes for them; one of   *)
(* the envelopes may be a null response, and the current item may be       *)
(* undefined.                                                              *)
(***************************************************************************)
ReconcilerArgs(n) ==
    {[authoringResult |-> a, liveResult |-> l, itemIds |-> SampleIds(n),
      currentItemId |-> Str(SampleId(1))] :
        a \in Envelopes(n, AuthoringSlots), l \in Envelopes(n, LiveSlots)}
    \cup {[authoringResult |-> a, liveResult |-> ErrorEnvelope, itemIds |-> SampleIds(n),
           currentItemId |-> Undefined] : a \in Envelopes(n, AuthoringSlots)}
    \cup {[authoringResult |-> NullEnvelope, liveResult |-> l, itemIds |-> SampleIds(n),
           currentItemId |-> Str(SampleId(1))] : l \in Envelopes(n, LiveSlots)}
    \cup {[authoringResult |-> a, liveResult |-> NullEnvelope, itemIds |-> SampleIds(n),
           currentItemId |-> Str(SampleId(1))] : a \in Envelopes(n, AuthoringSlots)}

ReconcilerInit ==
    /\ HookInit
    /\ ClientInit
    /\ CycleInit
    /\ callee = "processItemData"
    /\ \E n \in 0..MaxIds : args \in ReconcilerArgs(n)
    /\ ret = NotCalled

CallReconciler ==
    /\ callee = "processItemData"
    /\ ret.st = "none"
    /\ ret' = processItemData(args.authoringResult, args.liveResult, args.itemIds,
                              args.currentItemId)
    /\ UNCHANGED <<hookVars, cycleVars, callee, args, clientVars>>

ReconcilerNext == CallReconciler

SpecReconciler == ReconcilerInit /\ [][ReconcilerNext]_vars

(***************************************************************************)
(* SpecVersions: one call of processItemData on one identifier whose       *)
(* authoring and live slots are absent or carry any version up to          *)
(* MaxVersion.                                                             *)
(***************************************************************************)
MaxVersion == 8

\* item0 of either endpoint: absent, or present with a version
VersionSlots(Slots(_)) ==
    {AbsentSlot}
    \cup {[SlotWith(Slots, 0, 1) EXCEPT !.version = v] : v \in 0..MaxVersion}

VersionsInit ==
    /\ HookInit
    /\ ClientInit
    /\ CycleInit
    /\ callee = "processItemData"
    /\ args \in {[authoringResult |-> DataEnvelope(<<a>>, <<>>),
                  liveResult |-> DataEnvelope(<<l>>, <<>>),
                  itemIds |-> SampleIds(1),
                  currentItemId |-> Str(SampleId(1))] :
                    a \in VersionSlots(AuthoringSlots), l \in VersionSlots(LiveSlots)}
    /\ ret = NotCalled

SpecVersions == VersionsInit /\ [][ReconcilerNext]_vars

(***************************************************************************)
(* SpecResolver: one call of resolveLocalDatasourcePaths on up to MaxPaths *)
(* local paths, with every outcome of the resolution query.                *)
(***************************************************************************)
MaxPaths == 2

\* "Text 2", a path without the Data/ segment
PlainPath == <<"T","e","x","t"," ","2">>
\* "Data/Card/Data/Text 3"
NestedPath == DataSegment \o <<"C","a","r","d","/">> \o DataSegment \o <<"T","e","x","t"," ","3">>

\* the lists of up to n different local paths
RECURSIVE PathLists(_)
PathLists(n) ==
    IF n = 0 THEN {<<>>}
    ELSE PathLists(n - 1)
         \cup {pp \in {Append(ps, p) : ps \in {x \in PathLists(n - 1) : Len(x) = n - 1},
                                        p \in {TextPath, PlainPath, NestedPath}} :
                  \A i \in 1..(n - 1) : pp[i] # pp[n]}

\* what the authoring endpoint can return at alias path{i}: nothing, an item
\* without itemId, an item not seen before, and the datasource item in the
\* compact and in the hyphenated spelling
ResolutionSlots ==
    {[present |-> FALSE, itemId |-> <<>>], [present |-> TRUE, itemId |-> <<>>]}
    \cup {[present |-> TRUE, itemId |-> x] :
            x \in {braced(LocalGuid), stripChars(DatasourceGuid, {"-"}),
                   braced(toUpperCase(DatasourceGuid))}}

ResolutionResponse(slots) == [kind |-> "object", data |-> "present", slots |-> slots]

RECURSIVE ResolutionSlotLists(_)
ResolutionSlotLists(n) ==
    IF n = 0 THEN {<<>>}
    ELSE {Append(sl, x) : sl \in ResolutionSlotLists(n - 1), x \in ResolutionSlots}

\* client.mutate throws, returns undefined, returns without nested data, or
\* returns the aliases path0 .. path{n-1}
ResolutionOutcomes(n) ==
    {TransportThrows,
     TransportReturns([kind |-> "null", data |-> "undefined", slots |-> <<>>]),
     TransportReturns([kind |-> "object", data |-> "nodata", slots |-> <<>>])}
    \cup {TransportReturns(ResolutionResponse(sl)) : sl \in ResolutionSlotLists(n)}

ResolverInit ==
    /\ HookInit
    /\ ClientInit
    /\ CycleInit
    /\ callee = "resolveLocalDatasourcePaths"
    /\ \E localPaths \in PathLists(MaxPaths) :
         args \in {[localPaths |-> localPaths, outcome |-> o] :
                      o \in ResolutionOutcomes(Len(localPaths))}
    /\ ret = NotCalled

CallResolver ==
    /\ callee = "resolveLocalDatasourcePaths"
    /\ ret.st = "none"
    /\ ret' = Returned(resolveLocalDatasourcePaths(args.localPaths, args.outcome))
    /\ UNCHANGED <<hookVars, cycleVars, callee, args, clientVars>>

ResolverNext == CallResolver

SpecResolver == ResolverInit /\ [][ResolverNext]_vars

(***************************************************************************)
(* SpecParser: one call of parseDatasourceValue on a field value joined    *)
(* from up to MaxSegments segments with "|", or on a value that is no      *)
(* string.  args.segments says what the value was joined from: the text of *)
(* each segment, its kind, and the identifier or path it names.            *)
(***************************************************************************)
MaxSegments == 2

Segment(text, kind, names) == [text |-> text, kind |-> kind, names |-> names]

Segments ==
    {Segment(braced(toUpperCase(DatasourceGuid)), "guid", DatasourceGuid),
     Segment(<<" ">> \o PageGuid \o <<" ">>, "guid", PageGuid),
     Segment(LocalPrefix \o TextPath, "local", TextPath),
     Segment(LocalPrefix \o PlainPath, "local", PlainPath),
     Segment(DsContentPath, "content", DsContentPath),
     Segment(DsQuery, "query", <<>>),
     Segment(stripChars(DatasourceGuid, {"-"}), "unknown", <<>>),
     Segment(<<" ">>, "blank", <<>>)}

RECURSIVE SegmentLists(_)
SegmentLists(n) ==
    IF n = 0 THEN {<<>>}
    ELSE SegmentLists(n - 1)
         \cup {Append(sl, x) : sl \in {y \in SegmentLists(n - 1) : Len(y) = n - 1},
                               x \in Segments}

\* segments.join('|')
RECURSIVE join(_)
join(segments) ==
    IF segments = <<>> THEN <<>>
    ELSE IF Len(segments) = 1 THEN segments[1].text
    ELSE segments[1].text \o <<"|">> \o join(Tail(segments))

ParserInit ==
    /\ HookInit
    /\ ClientInit
    /\ CycleInit
    /\ callee = "parseDatasourceValue"
    /\ args \in {[datasource |-> Str(join(sl)), segments |-> sl] :
                    sl \in SegmentLists(MaxSegments)}
                \cup {[datasource |-> x, segments |-> <<>>] : x \in {Undefined, Num(<<"7">>)}}
    /\ ret = NotCalled

CallParser ==
    /\ callee = "parseDatasourceValue"
    /\ ret.st = "none"
    /\ ret' = Returned(parseDatasourceValue(args.datasource))
    /\ UNCHANGED <<hookVars, cycleVars, callee, args, clientVars>>

ParserNext == CallParser

SpecParser == ParserInit /\ [][ParserNext]_vars

(***************************************************************************)
(* SpecAssembler: one call of createItemInformationResponse on a list of   *)
(* up to MaxIds records as processItemData builds them: unpublished,       *)
(* published in its latest version, or outdated, each flagged current or   *)
(* reference.                                                              *)
(***************************************************************************)
\* latestVersion and publishedVersion of the records
VersionPairs == {<<1, Null>>, <<2, 2>>, <<2, 1>>}

ProcessedItems(index) ==
    {[id |-> SampleId(index),
      name |-> "authoring item " \o ToString(index),
      path |-> "/sitecore/content/item " \o ToString(index),
      latestVersion |-> vp[1],
      publishedVersion |-> vp[2],
      isPublished |-> vp[2] # Null,
      isOutdated |-> outdated(vp[2] # Null, vp[2], vp[1]),
      versionDifference |-> difference(vp[2] # Null, vp[2], vp[1]),
      itemType |-> type,
      template |-> "Page",
      language |-> "en"] : vp \in VersionPairs, type \in {"current", "reference"}}

RECURSIVE ProcessedLists(_)
ProcessedLists(n) ==
    IF n = 0 THEN {<<>>}
    ELSE {Append(list, item) : list \in ProcessedLists(n - 1), item \in ProcessedItems(n)}

AssemblerInit ==
    /\ HookInit
    /\ ClientInit
    /\ CycleInit
    /\ callee = "createItemInformationResponse"
    /\ \E n \in 0..MaxIds : args \in {[items |-> list] : list \in ProcessedLists(n)}
    /\ ret = NotCalled

CallAssembler ==
    /\ callee = "createItemInformationResponse"
    /\ ret.st = "none"
    /\ ret' = Returned(createItemInformationResponse(args.items))
    /\ UNCHANGED <<hookVars, cycleVars, callee, args, clientVars>>

AssemblerNext == CallAssembler

SpecAssembler == AssemblerInit /\ [][AssemblerNext]_vars

(***************************************************************************)
(* Spec: the hook useItemInformation (part_002 36-218).                    *)
(*                                                                         *)
(* One fetch cycle runs at a time: a new one starts when the previous one  *)
(* has ended and none of its requests is still out.  pc is the await the   *)
(* cycle stands at: "context" (pages.context), "appContext"                *)
(* (application.context), "resolving" (resolveLocalDatasourcePaths),       *)
(* "bulk" (Promise.all of the two bulk queries), and "done".  The locals   *)
(* of a cycle stay as they were when the cycle ended.                      *)
(***************************************************************************)
NotInitialized == "Marketplace client not initialized"
NoItemIds == "No item IDs found in current context"

\* a page with its own identifier, a path and the given presentation details
Page(pageId, presentationDetails) ==
    [kind |-> "object",
     pageInfo |-> [kind |-> "object", itemId |-> Undefined, id |-> pageId,
                   pageId |-> Undefined, path |-> Str(PagePath),
                   presentationDetails |-> presentationDetails],
     siteInfo |-> NoSiteInfo,
     itemId |-> Undefined, id |-> Undefined, pageId |-> Undefined]

\* "local:/Data/Text 1|local:/Text 2"
DsTwoLocals == DsLocal \o <<"|">> \o LocalPrefix \o PlainPath

\* the page contexts pages.context answers with: a page without renderings;
\* a page with a datasource item and a local path; a page that is also the
\* datasource of one of its renderings, after another item; a context with
\* renderings but without any identifier of the page; a page with two local
\* paths; no context
HookContexts ==
    {Page(Str(PageGuid), NoPresentation),
     Page(Str(PageGuid), PresentationJson(<<Device(<<Rendering(DsGuidAndLocal)>>, <<>>)>>)),
     Page(Str(PageGuid),
          PresentationObject(<<Device(<<RenderingNone, Rendering(DsGuidThenPage)>>, <<>>)>>)),
     Page(Undefined, PresentationObject(<<Device(<<Rendering(DsGuidAndLocal)>>, <<>>)>>)),
     Page(Str(PageGuid), PresentationObject(<<Device(<<Rendering(DsTwoLocals)>>, <<>>)>>)),
     NullContext}

\* the identifier lists refetchItems is called with
SpecificLists == {<<SampleId(1)>>, <<SampleId(2), SampleId(1)>>}

\* application.context: the query throws, or answers without or with a
\* preview / live / sitecoreContextId token
TokenOutcomes == {"throws", "absent", "present"}

\* what client.mutate does for the authoring query of n identifiers
AuthoringOutcomes(n) ==
    {TransportThrows, TransportReturns(NullEnvelope)}
    \cup {TransportReturns(DataEnvelope(sl, <<>>)) :
            sl \in {tuple([i \in 1..n |-> SlotWith(AuthoringSlots, i - 1, 2)]),
                    tuple([i \in 1..n |-> IF i = 1 THEN SlotWith(AuthoringSlots, 0, 1)
                                          ELSE AbsentSlot])}}

\* what fetch does for the live query of n identifiers: it throws (network
\* error, status not ok, body no JSON), or the body is null, or { data: {...} }
LiveOutcomes(n) ==
    {TransportThrows,
     TransportReturns([kind |-> "object", error |-> FALSE, data |-> "undefined",
                       slots |-> <<>>, errors |-> <<>>])}
    \cup {TransportReturns(DataEnvelope(sl, <<>>)) :
            sl \in {tuple([i \in 1..n |-> SlotWith(LiveSlots, i - 1, 1)]),
                    tuple([i \in 1..n |-> IF i = 1 THEN SlotWith(LiveSlots, 0, 2)
                                          ELSE AbsentSlot])}}

\* no request of the cycle is out
Settled(c) ==
    /\ resolveCall[c].st # "pending"
    /\ authoringCall[c].st # "pending"
    /\ liveCall[c].st # "pending"

\* a new cycle can start
Free(c) == pc[c] \in {"idle", "done"} /\ Settled(c)

\* catch and finally (lines 180-188)
\* one mutant does not clear the items, the other has no finally block
Catch_keepsItems(c, message) ==
    /\ error' = message
    /\ data' = NullData
    /\ loading' = FALSE
    /\ pc' = [pc EXCEPT ![c] = "done"]
    /\ UNCHANGED items

Catch_noFinally(c, message) ==
    /\ error' = message
    /\ data' = NullData
    /\ items' = <<>>
    /\ pc' = [pc EXCEPT ![c] = "done"]
    /\ UNCHANGED loading

Catch(c, message) ==
    /\ error' = message
    /\ data' = NullData
    /\ items' = <<>>
    /\ loading' = FALSE
    /\ pc' = [pc EXCEPT ![c] = "done"]

\* the mutant reconciles with one identifier list shared by all calls, the
\* list of the call started in the last place
PromiseAll_sharedList(c, ids, authoring, live) ==
    LET shared == itemIds[CHOOSE d \in DOMAIN itemIds : \A e \in DOMAIN itemIds : e <= d]
    IN IF authoring.st = "rejected" THEN Catch(c, authoring.value)
       ELSE IF live.st = "rejected" THEN Catch(c, live.value)
       ELSE IF authoring.st = "fulfilled" /\ live.st = "fulfilled"
       THEN LET processedItems ==
                    processItemData(authoring.value, live.value, shared, currentItemId[c])
            IN IF processedItems.st = "threw" THEN Catch(c, processedItems.value)
               ELSE /\ data' = createItemInformationResponse(processedItems.value)
                    /\ items' = processedItems.value
                    /\ loading' = FALSE
                    /\ pc' = [pc EXCEPT ![c] = "done"]
                    /\ UNCHANGED error
       ELSE /\ pc' = [pc EXCEPT ![c] = "bulk"]
            /\ UNCHANGED <<data, items, loading, error>>

\* await Promise.all([...]) and what follows it (lines 153-188): a rejected
\* call ends the cycle in catch; with both fulfilled the cycle reconciles,
\* assembles and publishes; else it waits
PromiseAll(c, ids, authoring, live) ==
    IF authoring.st = "rejected" THEN Catch(c, authoring.value)
    ELSE IF live.st = "rejected" THEN Catch(c, live.value)
    ELSE IF authoring.st = "fulfilled" /\ live.st = "fulfilled"
    THEN LET processedItems ==
                 processItemData(authoring.value, live.value, ids, currentItemId[c])
         IN IF processedItems.st = "threw" THEN Catch(c, processedItems.value)
            ELSE /\ data' = createItemInformationResponse(processedItems.value)
                 /\ items' = processedItems.value
                 /\ loading' = FALSE
                 /\ pc' = [pc EXCEPT ![c] = "done"]
                 /\ UNCHANGED error
    ELSE /\ pc' = [pc EXCEPT ![c] = "bulk"]
         /\ UNCHANGED <<data, items, loading, error>>

\* lines 153-156: both bulk queries are called with the same list and token
IssueBulk(c, ids, token) ==
    LET authoring == callAuthoring(ids, token)
        live == callLive(ids)
    IN /\ authoringCall' = [authoringCall EXCEPT ![c] = authoring]
       /\ liveCall' = [liveCall EXCEPT ![c] = live]
       /\ PromiseAll(c, ids, authoring, live)

\* fetchItemInformation up to its first await (lines 43-65); ready is
\* client && isInitialized as the callback sees it
fetchItemInformation(c, ready, specificItemIds) ==
    IF ~ready
    THEN /\ error' = NotInitialized
         /\ UNCHANGED <<loading, cycleVars>>
    ELSE /\ loading' = TRUE
         /\ error' = NullError
         /\ itemIds' = [itemIds EXCEPT ![c] = specificItemIds]
         /\ currentItemId' = [currentItemId EXCEPT ![c] =
                IF Len(specificItemIds) > 0 THEN Str(specificItemIds[1]) ELSE Undefined]
         /\ pageContext' = [pageContext EXCEPT ![c] = NullContext]
         /\ localPathsToResolve' = [localPathsToResolve EXCEPT ![c] = <<>>]
         /\ currentPagePath' = [currentPagePath EXCEPT ![c] = <<>>]
         /\ sitecoreContextId' = [sitecoreContextId EXCEPT ![c] = FALSE]
         /\ resolveCall' = [resolveCall EXCEPT ![c] = NoCall]
         /\ authoringCall' = [authoringCall EXCEPT ![c] = NoCall]
         /\ liveCall' = [liveCall EXCEPT ![c] = NoCall]
         /\ pc' = [pc EXCEPT ![c] =
                IF Len(specificItemIds) > 0 THEN "appContext" ELSE "context"]

\* the client becomes ready and the effect of lines 212-218 starts the
\* initial load
ClientInitialized(c) ==
    /\ ~isInitialized
    /\ Free(c)
    /\ isInitialized' = TRUE
    /\ fetchItemInformation(c, TRUE, <<>>)
    /\ UNCHANGED <<data, items, callVars, clientVars>>

\* the client reports an error: the effect publishes it
ClientFailed ==
    /\ ~isInitialized
    /\ error' = "Client initialization error"
    /\ UNCHANGED <<isInitialized, data, items, loading, cycleVars, callVars, clientVars>>

\* refetch (lines 197-199)
Refetch(c) ==
    /\ Free(c)
    /\ fetchItemInformation(c, isInitialized, <<>>)
    /\ UNCHANGED <<isInitialized, data, items, callVars, clientVars>>

\* refetchItems (lines 193-195)
RefetchItems(c, ids) ==
    /\ Free(c)
    /\ fetchItemInformation(c, isInitialized, ids)
    /\ UNCHANGED <<isInitialized, data, items, callVars, clientVars>>

\* forceRefresh (lines 203-209)
ForceRefresh(c) ==
    /\ Free(c)
    /\ data' = NullData
    /\ items' = <<>>
    /\ fetchItemInformation(c, isInitialized, <<>>)
    /\ UNCHANGED <<isInitialized, callVars, clientVars>>

\* pages.context settles (lines 64-97)
ContextSettle(c, outcome) ==
    /\ pc[c] = "context"
    /\ IF outcome.kind = "throws"
       THEN /\ Catch(c, "pages.context failed")
            /\ UNCHANGED <<itemIds, currentItemId, pageContext, localPathsToResolve,
                           currentPagePath>>
       ELSE LET extractionResult == extractItemIdsWithLocalPaths(outcome.response)
            IN /\ pageContext' = [pageContext EXCEPT ![c] = outcome.response]
               /\ itemIds' = [itemIds EXCEPT ![c] = extractionResult.itemIds]
               /\ localPathsToResolve' =
                      [localPathsToResolve EXCEPT ![c] = extractionResult.localPathsToResolve]
               /\ currentPagePath' =
                      [currentPagePath EXCEPT ![c] = extractionResult.currentPagePath]
               /\ IF Len(extractionResult.itemIds) = 0
                  THEN /\ Catch(c, NoItemIds)
                       /\ UNCHANGED currentItemId
                  ELSE /\ currentItemId' =
                              [currentItemId EXCEPT ![c] = Str(extractionResult.itemIds[1])]
                       /\ pc' = [pc EXCEPT ![c] = "appContext"]
                       /\ UNCHANGED <<data, items, loading, error>>
    /\ UNCHANGED <<isInitialized, sitecoreContextId, resolveCall, authoringCall, liveCall,
                   callVars, clientVars>>

\* application.context settles (lines 103-122), and the cycle goes on to
\* the resolver (lines 125-133) or to the bulk queries
ApplicationContextSettle(c, outcome) ==
    /\ pc[c] = "appContext"
    /\ LET token == outcome = "present"
       IN /\ sitecoreContextId' = [sitecoreContextId EXCEPT ![c] = token]
          /\ IF Len(localPathsToResolve[c]) > 0 /\ token
             THEN /\ resolveCall' = [resolveCall EXCEPT ![c] =
                         Pending(fullPaths(localPathsToResolve[c], currentPagePath[c]))]
                  /\ pc' = [pc EXCEPT ![c] = "resolving"]
                  /\ UNCHANGED <<data, items, loading, error, authoringCall, liveCall>>
             ELSE /\ IssueBulk(c, itemIds[c], token)
                  /\ UNCHANGED resolveCall
    /\ UNCHANGED <<isInitialized, itemIds, currentItemId, pageContext, localPathsToResolve,
                   currentPagePath, callVars, clientVars>>

\* the resolver's promise is fulfilled; threw says that its catch block ran
\* (graphqlQueries.ts 331-339)
ResolverSettled(query, value, threw) ==
    [st |-> "fulfilled", query |-> query, value |-> value, threw |-> threw]

\* the resolver settles (lines 134-146), and the cycle goes on to the bulk
\* queries with the list it has then
ResolveSettle(c, outcome) ==
    /\ pc[c] = "resolving"
    /\ resolveCall[c].st = "pending"
    /\ LET resolvedPaths == resolveLocalDatasourcePaths(localPathsToResolve[c], outcome)
           ids == addResolved(itemIds[c], resolvedPaths)
       IN /\ resolveCall' = [resolveCall EXCEPT ![c] =
                 ResolverSettled(resolveCall[c].query, resolvedPaths,
                                 outcome.kind = "throws")]
          /\ itemIds' = [itemIds EXCEPT ![c] = ids]
          /\ IssueBulk(c, ids, sitecoreContextId[c])
    /\ UNCHANGED <<isInitialized, currentItemId, pageContext, localPathsToResolve,
                   currentPagePath, sitecoreContextId, callVars, clientVars>>

\* the authoring query settles
AuthoringSettle(c, outcome) ==
    /\ authoringCall[c].st = "pending"
    /\ LET authoring == settleAuthoring(authoringCall[c], outcome)
       IN /\ authoringCall' = [authoringCall EXCEPT ![c] = authoring]
          /\ IF pc[c] = "bulk"
             THEN PromiseAll(c, itemIds[c], authoring, liveCall[c])
             ELSE UNCHANGED <<data, items, loading, error, pc>>
    /\ UNCHANGED <<isInitialized, itemIds, currentItemId, pageContext, localPathsToResolve,
                   currentPagePath, sitecoreContextId, resolveCall, liveCall, callVars, clientVars>>

\* the live query settles; after a rejected Promise.all nobody awaits it
LiveSettle(c, outcome) ==
    /\ liveCall[c].st = "pending"
    /\ LET live == settleLive(liveCall[c], outcome)
       IN /\ liveCall' = [liveCall EXCEPT ![c] = live]
          /\ IF pc[c] = "bulk"
             THEN PromiseAll(c, itemIds[c], authoringCall[c], live)
             ELSE UNCHANGED <<data, items, loading, error, pc>>
    /\ UNCHANGED <<isInitialized, itemIds, currentItemId, pageContext, localPathsToResolve,
                   currentPagePath, sitecoreContextId, resolveCall, authoringCall, callVars, clientVars>>

Init ==
    /\ HookInit
    /\ ClientInit
    /\ CycleInit
    /\ NoFunctionCall

Next ==
    \/ \E c \in Cycles : ClientInitialized(c)
    \/ ClientFailed
    \/ \E c \in Cycles : Refetch(c)
    \/ \E c \in Cycles, ids \in SpecificLists : RefetchItems(c, ids)
    \/ \E c \in Cycles : ForceRefresh(c)
    \/ \E c \in Cycles, context \in HookContexts :
         ContextSettle(c, TransportReturns(context))
    \/ \E c \in Cycles : ContextSettle(c, TransportThrows)
    \/ \E c \in Cycles, outcome \in TokenOutcomes : ApplicationContextSettle(c, outcome)
    \/ \E c \in Cycles : \E outcome \in ResolutionOutcomes(Len(localPathsToResolve[c])) :
         ResolveSettle(c, outcome)
    \/ \E c \in Cycles : \E outcome \in AuthoringOutcomes(Len(itemIds[c])) :
         AuthoringSettle(c, outcome)
    \/ \E c \in Cycles : \E outcome \in LiveOutcomes(Len(itemIds[c])) :
         LiveSettle(c, outcome)

Spec == Init /\ [][Next]_vars

(***************************************************************************)
(* SpecNormalizer: one round trip through the identifier formats on an     *)
(* identifier string: normalizeItemId, formatGuidWithHyphens, and          *)
(* formatGuidWithoutHyphens.  The strings are three GUIDs in six           *)
(* spellings, cut off at several lengths or followed by one more           *)
(* character, and short strings that are no GUID.                          *)
(***************************************************************************)
Spellings(guid) ==
    {guid, toUpperCase(guid), braced(guid), braced(toUpperCase(guid)),
     stripChars(guid, {"-"}), toUpperCase(stripChars(guid, {"-"}))}

\* the lengths the spellings are cut off at
Cuts == {0, 1, 8, 9, 31, 32, 33, 35, 36, 38}

IdentifierStrings ==
    UNION {{SubSeq(s, 1, IF k <= Len(s) THEN k ELSE Len(s)) : k \in Cuts}
              \cup {s \o <<x>> : x \in {"0", "-", "}", "z"}} :
           s \in UNION {Spellings(guid) : guid \in {PageGuid, DatasourceGuid, LocalGuid}}}
    \cup {<<"u","n","k","n","o","w","n">>, <<"-">>, <<"{","}">>, <<"h","o","m","e">>}

NormalizerInit ==
    /\ HookInit
    /\ ClientInit
    /\ CycleInit
    /\ callee = "formatGuidWithHyphens"
    /\ args \in {[itemId |-> x] : x \in IdentifierStrings}
    /\ ret = NotCalled

CallNormalizer ==
    /\ callee = "formatGuidWithHyphens"
    /\ ret.st = "none"
    /\ LET canonical == normalizeItemId(args.itemId)
           hyphenated == formatGuidWithHyphens(canonical)
       IN ret' = Returned([canonical |-> canonical,
                           hyphenated |-> hyphenated,
                           compact |-> formatGuidWithoutHyphens(hyphenated),
                           normalized |-> normalizeItemId(hyphenated)])
    /\ UNCHANGED <<hookVars, cycleVars, callee, args, clientVars>>

NormalizerNext == CallNormalizer

SpecNormalizer == NormalizerInit /\ [][NormalizerNext]_vars

(***************************************************************************)
(* SpecOverlap: the hook with two fetch cycles that may run at once.       *)
(* refetch, refetchItems and forceRefresh do not wait for a running call   *)
(* of fetchItemInformation (part_002 193-209): each call has its own       *)
(* locals and its own requests, and all calls write the same data, items,  *)
(* loading and error.  pages.context answers with one of two pages.        *)
(***************************************************************************)
OverlapCycles == {1, 2}

OverlapContexts ==
    {Page(Str(PageGuid), NoPresentation),
     Page(Str(DatasourceGuid),
          PresentationObject(<<Device(<<Rendering(DsLocal)>>, <<>>)>>))}

\* refetchItems is called with one identifier, or with the same one twice
OverlapLists == {<<SampleId(3)>>, <<SampleId(3), SampleId(3)>>}

\* the resolver throws or resolves its one path
OverlapResolutions ==
    {TransportThrows,
     TransportReturns(ResolutionResponse(<<[present |-> TRUE, itemId |-> braced(LocalGuid)]>>))}

OverlapAuthoring(n) ==
    {TransportThrows,
     TransportReturns(DataEnvelope(tuple([i \in 1..n |-> SlotWith(AuthoringSlots, i - 1, 2)]),
                                   <<>>))}

OverlapLive(n) ==
    {TransportThrows,
     TransportReturns(DataEnvelope(tuple([i \in 1..n |-> SlotWith(LiveSlots, i - 1, 1)]),
                                   <<>>))}

OverlapInit ==
    /\ HookInit
    /\ ClientInit
    /\ pc = [c \in OverlapCycles |-> "idle"]
    /\ itemIds = [c \in OverlapCycles |-> <<>>]
    /\ currentItemId = [c \in OverlapCycles |-> Undefined]
    /\ pageContext = [c \in OverlapCycles |-> NullContext]
    /\ localPathsToResolve = [c \in OverlapCycles |-> <<>>]
    /\ currentPagePath = [c \in OverlapCycles |-> <<>>]
    /\ sitecoreContextId = [c \in OverlapCycles |-> FALSE]
    /\ resolveCall = [c \in OverlapCycles |-> NoCall]
    /\ authoringCall = [c \in OverlapCycles |-> NoCall]
    /\ liveCall = [c \in OverlapCycles |-> NoCall]
    /\ NoFunctionCall

OverlapNext ==
    \/ \E c \in OverlapCycles : ClientInitialized(c)
    \/ ClientFailed
    \/ \E c \in OverlapCycles : Refetch(c)
    \/ \E c \in OverlapCycles, ids \in OverlapLists : RefetchItems(c, ids)
    \/ \E c \in OverlapCycles : ForceRefresh(c)
    \/ \E c \in OverlapCycles, context \in OverlapContexts :
         ContextSettle(c, TransportReturns(context))
    \/ \E c \in OverlapCycles : ContextSettle(c, TransportThrows)
    \/ \E c \in OverlapCycles, outcome \in TokenOutcomes :
         ApplicationContextSettle(c, outcome)
    \/ \E c \in OverlapCycles, outcome \in OverlapResolutions : ResolveSettle(c, outcome)
    \/ \E c \in OverlapCycles : \E outcome \in OverlapAuthoring(Len(itemIds[c])) :
         AuthoringSettle(c, outcome)
    \/ \E c \in OverlapCycles : \E outcome \in OverlapLive(Len(itemIds[c])) :
         LiveSettle(c, outcome)

SpecOverlap == OverlapInit /\ [][OverlapNext]_vars

(***************************************************************************)
(* FairSpec: one fetch cycle at a time on the answers of SpecOverlap and   *)
(* on a context without a page, where every request of a running cycle     *)
(* settles: pages.context, application.context, the resolver and the two   *)
(* bulk queries.                                                           *)
(***************************************************************************)
SettleContext ==
    \E c \in Cycles :
        \/ ContextSettle(c, TransportThrows)
        \/ \E context \in OverlapContexts \cup {NullContext} :
             ContextSettle(c, TransportReturns(context))

SettleApplicationContext ==
    \E c \in Cycles, outcome \in TokenOutcomes : ApplicationContextSettle(c, outcome)

SettleResolver ==
    \E c \in Cycles, outcome \in OverlapResolutions : ResolveSettle(c, outcome)

SettleAuthoring ==
    \E c \in Cycles : \E outcome \in OverlapAuthoring(Len(itemIds[c])) :
        AuthoringSettle(c, outcome)

SettleLive ==
    \E c \in Cycles : \E outcome \in OverlapLive(Len(itemIds[c])) : LiveSettle(c, outcome)

FairNext ==
    \/ \E c \in Cycles : ClientInitialized(c)
    \/ ClientFailed
    \/ \E c \in Cycles : Refetch(c)
    \/ \E c \in Cycles, ids \in OverlapLists : RefetchItems(c, ids)
    \/ \E c \in Cycles : ForceRefresh(c)
    \/ SettleContext
    \/ SettleApplicationContext
    \/ SettleResolver
    \/ SettleAuthoring
    \/ SettleLive

FairSpec ==
    /\ Init
    /\ [][FairNext]_vars
    /\ WF_vars(SettleContext)
    /\ WF_vars(SettleApplicationContext)
    /\ WF_vars(SettleResolver)
    /\ WF_vars(SettleAuthoring)
    /\ WF_vars(SettleLive)

(***************************************************************************)
(* SpecSpecific: the hook useSpecificItemsInformation(itemIds)             *)
(* (part_002 234-314).  Its fetch has no await before Promise.all; the     *)
(* identifier list is the hook's argument at the time of the call.         *)
(***************************************************************************)
NoItemIdsProvided == "No item IDs provided"

\* the arguments the hook is used with
SpecificArguments ==
    {SampleIds(n) : n \in 0..MaxIds} \cup {<<SampleId(2), SampleId(1)>>}

SpecificLive(n) ==
    LiveOutcomes(n) \cup {TransportReturns(e) : e \in Envelopes(n, LiveSlots)}

\* fetchSpecificItems (lines 241-275); ready is client && isInitialized
fetchSpecificItems(c, ready, ids) ==
    IF ~ready \/ Len(ids) = 0
    THEN /\ error' = IF Len(ids) = 0 THEN NoItemIdsProvided ELSE NotInitialized
         /\ UNCHANGED <<data, items, loading, cycleVars>>
    ELSE LET authoring == callAuthoring(ids, FALSE)
             live == callLive(ids)
         IN /\ itemIds' = [itemIds EXCEPT ![c] = ids]
            /\ currentItemId' = [currentItemId EXCEPT ![c] = Str(ids[1])]
            /\ authoringCall' = [authoringCall EXCEPT ![c] = authoring]
            /\ liveCall' = [liveCall EXCEPT ![c] = live]
            /\ IF authoring.st = "rejected"
               THEN Catch(c, authoring.value)
               ELSE /\ loading' = TRUE
                    /\ error' = NullError
                    /\ pc' = [pc EXCEPT ![c] = "bulk"]
                    /\ UNCHANGED <<data, items>>
            /\ UNCHANGED <<pageContext, localPathsToResolve, currentPagePath,
                           sitecoreContextId, resolveCall>>

\* the client becomes ready and the effect of lines 298-304 starts the load
\* when there are identifiers
SpecificClientInitialized(c, ids) ==
    /\ ~isInitialized
    /\ Free(c)
    /\ isInitialized' = TRUE
    /\ IF Len(ids) > 0
       THEN fetchSpecificItems(c, TRUE, ids)
       ELSE UNCHANGED <<data, items, loading, error, cycleVars>>
    /\ UNCHANGED <<callVars, clientVars>>

\* refetch, refetchItems and forceRefresh (lines 277-296)
SpecificRefetch(c, ids) ==
    /\ Free(c)
    /\ fetchSpecificItems(c, isInitialized, ids)
    /\ UNCHANGED <<isInitialized, callVars, clientVars>>

SpecificNext ==
    \/ \E c \in Cycles, ids \in SpecificArguments : SpecificClientInitialized(c, ids)
    \/ ClientFailed
    \/ \E c \in Cycles, ids \in SpecificArguments : SpecificRefetch(c, ids)
    \/ \E c \in Cycles : \E outcome \in SpecificLive(Len(itemIds[c])) :
         LiveSettle(c, outcome)

SpecSpecific == Init /\ [][SpecificNext]_vars

(***************************************************************************)
(* SpecXMC: the hook useXMCClient (utils/hooks/useXMCClient.ts 58-153).    *)
(*                                                                         *)
(* chain is the running chain of initializeClient calls: pc is "creating"  *)
(* while it awaits getXMCClient (line 107) and "delay" while it awaits the *)
(* retry timer (line 116); attempt is its parameter, made counts the calls *)
(* of experimental_createXMCClient of the chain, and result says how the   *)
(* chain ended: with a client, with an error, or because the retry call    *)
(* returned at line 104.  The updater of line 95 is run where setState is  *)
(* called, as line 104 takes for granted.  The module variable xmcClient   *)
(* may have been set by an earlier use of the hook.                        *)
(***************************************************************************)
NotInSitecore == "Not in Sitecore environment - running in standalone mode"
CreationFailed == "Failed to initialize XMC Client"

\* the check of the updater (line 96)
Blocked == xmcState.isLoading \/ xmcState.isInitialized \/ isInitializingRef

\* initializeClient(attempt) up to its first await (lines 77-107); made is
\* the number of creations of the chain so far, and inRetry says that the
\* call is made by the catch block of the chain before it (line 117), whose
\* finally block (line 126) runs when this call has returned its promise
initializeClient(attempt, made, inRetry) ==
    LET ended(result) == [pc |-> "ended", attempt |-> attempt, made |-> made,
                          result |-> result]
    IN IF ~isInSitecore
       THEN /\ xmcState' = [client |-> FALSE, error |-> NotInSitecore,
                            isLoading |-> FALSE, isInitialized |-> FALSE]
            /\ isInitializingRef' = IF inRetry THEN FALSE ELSE isInitializingRef
            /\ chain' = IF inRetry THEN ended("returned") ELSE chain
       ELSE IF ~marketplaceClient \/ Blocked
       THEN /\ isInitializingRef' = IF inRetry THEN FALSE ELSE isInitializingRef
            /\ chain' = IF inRetry THEN ended("returned") ELSE chain
            /\ UNCHANGED xmcState
       ELSE /\ xmcState' = [xmcState EXCEPT !.isLoading = TRUE, !.error = NoError]
            /\ isInitializingRef' = ~inRetry
            /\ chain' = [pc |-> "creating", attempt |-> attempt,
                        made |-> IF xmcClient THEN made ELSE made + 1,
                        result |-> "none"]

\* the effect of lines 133-136 runs for the first time
Mount ==
    /\ ~mounted
    /\ mounted' = TRUE
    /\ IF opts.autoInit /\ marketplaceClient
       THEN initializeClient(1, 0, FALSE)
       ELSE UNCHANGED <<xmcState, isInitializingRef, chain>>
    /\ UNCHANGED <<hookVars, cycleVars, callVars, opts, isInSitecore, marketplaceClient,
                   xmcClient>>

\* the marketplace client arrives: the cleanup of the effect (lines 137-145)
\* resets the state, and the effect runs again with the new initializeClient
MarketplaceClientReady ==
    /\ mounted /\ ~marketplaceClient
    /\ marketplaceClient' = TRUE
    /\ IF opts.autoInit /\ isInSitecore
       THEN /\ xmcState' = [InitialState EXCEPT !.isLoading = TRUE]
            /\ isInitializingRef' = TRUE
            /\ chain' = [pc |-> "creating", attempt |-> 1,
                        made |-> IF xmcClient THEN 0 ELSE 1, result |-> "none"]
       ELSE IF opts.autoInit
       THEN /\ xmcState' = [InitialState EXCEPT !.error = NotInSitecore]
            /\ isInitializingRef' = FALSE
            /\ UNCHANGED chain
       ELSE /\ xmcState' = InitialState
            /\ isInitializingRef' = FALSE
            /\ UNCHANGED chain
    /\ UNCHANGED <<hookVars, cycleVars, callVars, opts, isInSitecore, mounted, xmcClient>>

\* the caller of the hook calls initialize()
Initialize ==
    /\ mounted
    /\ initializeClient(1, 0, FALSE)
    /\ UNCHANGED <<hookVars, cycleVars, callVars, opts, isInSitecore, marketplaceClient,
                   mounted, xmcClient>>

\* getXMCClient settles (lines 39-56 and 107-127): with the client, or
\* experimental_createXMCClient has thrown
CreateSettle(created) ==
    /\ chain.pc = "creating"
    /\ IF created \/ xmcClient
       THEN /\ xmcClient' = TRUE
            /\ xmcState' = [client |-> TRUE, error |-> NoError, isLoading |-> FALSE,
                            isInitialized |-> TRUE]
            /\ isInitializingRef' = FALSE
            /\ chain' = [chain EXCEPT !.pc = "ended", !.result = "client"]
       ELSE IF chain.attempt < opts.retryAttempts
       THEN /\ chain' = [chain EXCEPT !.pc = "delay"]
            /\ UNCHANGED <<xmcClient, xmcState, isInitializingRef>>
       ELSE /\ xmcState' = [client |-> FALSE, error |-> CreationFailed,
                            isLoading |-> FALSE, isInitialized |-> FALSE]
            /\ isInitializingRef' = FALSE
            /\ chain' = [chain EXCEPT !.pc = "ended", !.result = "error"]
            /\ UNCHANGED xmcClient
    /\ UNCHANGED <<hookVars, cycleVars, callVars, opts, isInSitecore, marketplaceClient,
                   mounted>>

\* the retry timer fires (lines 116-117 and 125-127)
RetryDelayOver ==
    /\ chain.pc = "delay"
    /\ initializeClient(chain.attempt + 1, chain.made, TRUE)
    /\ UNCHANGED <<hookVars, cycleVars, callVars, opts, isInSitecore, marketplaceClient,
                   mounted, xmcClient>>

XMCInit ==
    /\ HookInit
    /\ CycleInit
    /\ NoFunctionCall
    /\ opts \in {[retryAttempts |-> n, autoInit |-> a] :
                    n \in 1..DefaultRetryAttempts, a \in BOOLEAN}
    /\ isInSitecore \in BOOLEAN
    /\ marketplaceClient \in BOOLEAN
    /\ mounted = FALSE
    /\ xmcClient \in BOOLEAN
    /\ xmcState = InitialState
    /\ isInitializingRef = FALSE
    /\ chain = NoChain

XMCNext ==
    \/ Mount
    \/ MarketplaceClientReady
    \/ Initialize
    \/ \E created \in BOOLEAN : CreateSettle(created)
    \/ RetryDelayOver

SpecXMC == XMCInit /\ [][XMCNext]_vars

\* every await of a running chain settles: getXMCClient answers and the
\* retry timer fires
FairSpecXMC ==
    /\ SpecXMC
    /\ WF_vars(\E created \in BOOLEAN : CreateSettle(created))
    /\ WF_vars(RetryDelayOver)

(***************************************************************************)
(* Properties.                                                             *)
(***************************************************************************)
\* the slot of alias item{i-1} in an envelope: absent when the envelope has
\* no nested data
SlotOf(envelope, i) ==
    IF envelope.kind = "object" /\ ~envelope.error /\ envelope.data = "present"
          /\ i <= Len(envelope.slots)
    THEN envelope.slots[i]
    ELSE AbsentSlot

ReconcilerCalled == callee = "processItemData" /\ ret.st # "none"

\* C1: processItemData returns one record per position of ids, in order, with
\* record[i].id = ids[i]; record[i].latestVersion is the version of the
\* authoring slot item{i}, 0 if the slot is absent, and
\* record[i].publishedVersion is the version of the live slot item{i}, null
\* if the slot is absent; no other slot contributes to record i.
C1_OrdinalAlignment ==
    (ReconcilerCalled /\ ret.st = "returned") =>
        /\ Len(ret.value) = Len(args.itemIds)
        /\ \A i \in 1..Len(args.itemIds) :
             LET authoringSlot == SlotOf(args.authoringResult, i)
                 liveSlot == SlotOf(args.liveResult, i)
             IN /\ ret.value[i].id = args.itemIds[i]
                /\ ret.value[i].latestVersion =
                       (IF authoringSlot.present THEN authoringSlot.version ELSE 0)
                /\ ~liveSlot.present => ret.value[i].publishedVersion = Null
                /\ (liveSlot.present /\ liveSlot.version >= 1) =>
                       ret.value[i].publishedVersion = liveSlot.version

\* ids [A, B, C], authoring data only at item1, live data only at item0 and
\* item2: the B record has the authoring version and no published version
C1_Witness ==
    /\ ReconcilerCalled /\ ret.st = "returned"
    /\ Len(args.itemIds) = 3
    /\ args.authoringResult.data = "present" /\ args.liveResult.data = "present"
    /\ Len(args.authoringResult.slots) = 3 /\ Len(args.liveResult.slots) = 3
    /\ ~args.authoringResult.slots[1].present
    /\ args.authoringResult.slots[2].present /\ args.authoringResult.slots[2].version = 2
    /\ ~args.authoringResult.slots[3].present
    /\ args.liveResult.slots[1].present /\ args.liveResult.slots[1].version = 1
    /\ ~args.liveResult.slots[2].present
    /\ args.liveResult.slots[3].present /\ args.liveResult.slots[3].version = 2
    /\ ret.value[2].id = SampleId(2)
    /\ ret.value[2].latestVersion = 2
    /\ ret.value[2].publishedVersion = Null

\* a request of the bulk step has failed: rejected, or an { error } envelope
Failed(call) ==
    \/ call.st = "rejected"
    \/ call.st = "fulfilled" /\ call.value.kind = "object" /\ call.value.error

\* C2: in every fetch cycle both bulk calls are awaited to a settled outcome
\* before the cycle ends, and when exactly one of them has failed (transport
\* error, or no context token for the authoring call) the cycle still
\* publishes a report and not the error state.
C2_BothAwaited ==
    \A c \in Cycles :
        (pc[c] = "done" /\ authoringCall[c].st # "none") =>
            /\ authoringCall[c].st = "fulfilled"
            /\ liveCall[c].st = "fulfilled"
            /\ (Failed(authoringCall[c]) # Failed(liveCall[c])) =>
                   (error = NullError /\ data # NullData)

\* the cycle has ended in the error state while its live request is out
C2_Witness ==
    \E c \in Cycles :
        /\ pc[c] = "done"
        /\ authoringCall[c].st = "rejected"
        /\ liveCall[c].st = "pending"
        /\ error = TokenRequired
        /\ data = NullData

\* C3: for every identifier list and every context token, present or
\* absent, getItemsFromAuthoring and getItemsFromLive settle with an
\* envelope; neither rejects.
C3_FetchersNeverReject ==
    \A c \in Cycles :
        /\ authoringCall[c].st # "rejected"
        /\ liveCall[c].st # "rejected"

\* getItemsFromAuthoring called with identifiers and without a token
C3_Witness ==
    \E c \in Cycles :
        /\ Len(authoringCall[c].query) > 0
        /\ ~sitecoreContextId[c]
        /\ authoringCall[c] = Rejected(itemIds[c], TokenRequired)

WalkerCalled == callee = "extractItemIdsWithLocalPaths" /\ ret.st = "returned"

\* C4: whenever extractItemIdsWithLocalPaths returns a non-empty itemIds
\* list, itemIds[0] is the canonical form of the current page's own
\* identifier, also when that identifier is among the datasources.
C4_CurrentItemFirst ==
    (WalkerCalled /\ ret.value.itemIds # <<>>) =>
        /\ currentIdOf(args).t = "string"
        /\ ret.value.itemIds[1] = normalizeItemId(currentIdOf(args).v)

\* the page is the datasource of one of its renderings, after another item
C4_Witness ==
    /\ WalkerCalled
    /\ currentIdOf(args) = Str(PageGuid)
    /\ ret.value.itemIds = <<normalizeItemId(DatasourceGuid), normalizeItemId(PageGuid)>>

\* C5: extractItemIdsWithLocalPaths returns the empty result whenever no
\* current item identifier can be determined from page-info, site-info or
\* the top level of the context, whatever the presentation details hold.
C5_EmptyWithoutCurrentItem ==
    (WalkerCalled /\ ~(truthy(currentIdOf(args)) /\ currentIdOf(args).t = "string")) =>
        /\ ret.value.itemIds = <<>>
        /\ ret.value.localPathsToResolve = <<>>

\* no identifier of the page, a datasource item and a local path
C5_Witness ==
    /\ WalkerCalled
    /\ ~truthy(currentIdOf(args))
    /\ ret.value.itemIds = <<normalizeItemId(DatasourceGuid)>>
    /\ ret.value.localPathsToResolve = <<TextPath>>

\* the cycle has started from the page context and has called the bulk queries
BulkFromContext(c) == pageContext[c].kind = "object" /\ authoringCall[c].st # "none"

\* C6: in every fetch cycle started from the page context, the identifier
\* list handed to the bulk queries has no two entries with the same
\* canonical form.
C6_NoCanonicalDuplicates ==
    \A c \in Cycles :
        BulkFromContext(c) =>
            \A i, j \in 1..Len(authoringCall[c].query) :
                normalizeItemId(authoringCall[c].query[i])
                    = normalizeItemId(authoringCall[c].query[j]) => i = j

\* the datasource item is queried in its compact and its hyphenated spelling
C6_Witness ==
    \E c \in Cycles :
        /\ BulkFromContext(c)
        /\ authoringCall[c].query =
               <<normalizeItemId(PageGuid), normalizeItemId(DatasourceGuid),
                 toUpperCase(DatasourceGuid)>>

ResolverCalled == callee = "resolveLocalDatasourcePaths" /\ ret.st = "returned"

\* the value of a key in a mapping, as a set: empty when the key is missing
ValuesOf(entries, key) ==
    {entries[i].value : i \in {k \in 1..Len(entries) : entries[k].key = key}}

\* C7: when the resolution call returns without throwing, the mapping has
\* exactly one key per input path, and the value for the path at ordinal i
\* is the canonical identifier of the item in slot path{i}, or null when the
\* slot returned no item.
C7_ResolvedMapping ==
    (ResolverCalled /\ args.outcome.kind = "returns") =>
        /\ Len(ret.value) = Len(args.localPaths)
        /\ \A i \in 1..Len(args.localPaths) :
             LET slots == args.outcome.response.slots
                 hasItem == /\ args.outcome.response.data = "present"
                            /\ i <= Len(slots)
                            /\ slots[i].present /\ slots[i].itemId # <<>>
             IN ValuesOf(ret.value, args.localPaths[i]) =
                    {IF hasItem THEN Str(normalizeItemId(slots[i].itemId)) ELSE JsNull}

\* the slot holds an item with a hyphenated identifier
C7_Witness ==
    /\ ResolverCalled /\ args.outcome.kind = "returns"
    /\ args.localPaths = <<TextPath>>
    /\ args.outcome.response.slots =
           <<[present |-> TRUE, itemId |-> braced(toUpperCase(DatasourceGuid))]>>
    /\ ret.value = <<[key |-> TextPath, value |-> Str(toUpperCase(DatasourceGuid))]>>

\* an envelope that is absent or has no nested data
Unusable(envelope) == envelope.kind = "null" \/ envelope.data # "present"

\* C8: if either envelope is absent or lacks nested data, processItemData
\* takes nothing from it and still returns one record per identifier from
\* the other envelope, without throwing.
C8_AbsentEnvelopeTolerated ==
    (ReconcilerCalled
        /\ (Unusable(args.authoringResult) \/ Unusable(args.liveResult))) =>
        /\ ret.st = "returned"
        /\ Len(ret.value) = Len(args.itemIds)
        /\ \A i \in 1..Len(args.itemIds) :
             /\ ret.value[i].id = args.itemIds[i]
             /\ Unusable(args.authoringResult) =>
                    (ret.value[i].latestVersion = 0 /\ ret.value[i].path = "")
             /\ Unusable(args.liveResult) => ret.value[i].publishedVersion = Null
             /\ ~Unusable(args.authoringResult) =>
                    ret.value[i].latestVersion = SlotOf(args.authoringResult, i).version

\* an undefined authoring response next to live data with a published item
C8_Witness ==
    /\ ReconcilerCalled
    /\ args.authoringResult = NullEnvelope
    /\ Len(args.itemIds) = 1
    /\ SlotOf(args.liveResult, 1).present /\ SlotOf(args.liveResult, 1).version = 1
    /\ ret.st = "threw"

\* the authoring call of the cycle has returned nested data
AuthoringSucceeded(c) ==
    /\ authoringCall[c].st = "fulfilled"
    /\ authoringCall[c].value.kind = "object"
    /\ ~authoringCall[c].value.error
    /\ authoringCall[c].value.data = "present"

\* C9: a live call that fails at transport level settles with an { error }
\* envelope and never rejects; when the authoring call has succeeded, the
\* cycle then publishes one item per identifier, each with publishedVersion
\* null and isPublished false, and with name, path and latestVersion of the
\* authoring slot.
C9_LiveFailureDegrades ==
    \A c \in Cycles :
        /\ liveCall[c].st # "rejected"
        /\ (pc[c] = "done" /\ AuthoringSucceeded(c)
              /\ liveCall[c].st = "fulfilled" /\ liveCall[c].value = ErrorResult) =>
               /\ error = NullError
               /\ Len(items) = Len(itemIds[c])
               /\ \A i \in 1..Len(itemIds[c]) :
                    LET slot == SlotOf(authoringCall[c].value, i)
                    IN /\ items[i].id = itemIds[c][i]
                       /\ items[i].publishedVersion = Null
                       /\ ~items[i].isPublished
                       /\ items[i].latestVersion = slot.version
                       /\ items[i].path = slot.path
                       /\ items[i].name =
                              (IF slot.present THEN slot.name ELSE "Unknown Item")

\* three identifiers, all in the authoring data, and the live call has thrown
C9_Witness ==
    \E c \in Cycles :
        /\ pc[c] = "done" /\ AuthoringSucceeded(c)
        /\ liveCall[c].st = "fulfilled" /\ liveCall[c].value = ErrorResult
        /\ Len(items) = 3
        /\ \A i \in 1..3 : /\ items[i].latestVersion = 2
                           /\ items[i].publishedVersion = Null
                           /\ items[i].name = SlotOf(authoringCall[c].value, i).name
                           /\ items[i].name # "Unknown Item"

\* the identifiers of a mapping that are not null
ResolvedIds(entries) ==
    {entries[i].value.v : i \in {k \in 1..Len(entries) : truthy(entries[k].value)}}

\* C10: while the resolver is out no bulk query has been issued; once it has
\* settled both bulk queries get the same list: the walker's list, its
\* positions unchanged and the current item at index 0, followed by the
\* resolved identifiers that are not null and were not in the list, each
\* once.
C10_ResolveBeforeBulk ==
    \A c \in Cycles :
        /\ resolveCall[c].st = "pending" =>
               (authoringCall[c].st = "none" /\ liveCall[c].st = "none")
        /\ resolveCall[c].st = "fulfilled" =>
               LET walked == extractItemIdsWithLocalPaths(pageContext[c]).itemIds
                   final == authoringCall[c].query
                   fresh == ResolvedIds(resolveCall[c].value)
                                \ {walked[i] : i \in 1..Len(walked)}
               IN /\ authoringCall[c].st # "none" /\ liveCall[c].st # "none"
                  /\ final = itemIds[c]
                  /\ Len(liveCall[c].query) = Len(final)
                  /\ \A i \in 1..Len(final) :
                       liveCall[c].query[i] = braced(formatGuidWithHyphens(final[i]))
                  /\ Len(final) = Len(walked) + Cardinality(fresh)
                  /\ SubSeq(final, 1, Len(walked)) = walked
                  /\ {final[i] : i \in (Len(walked) + 1)..Len(final)} = fresh
                  /\ currentItemId[c] = Str(final[1])

\* the resolver has added an identifier behind the two the walker found
C10_Witness ==
    \E c \in Cycles :
        /\ resolveCall[c].st = "fulfilled"
        /\ authoringCall[c].st = "pending" /\ liveCall[c].st = "pending"
        /\ extractItemIdsWithLocalPaths(pageContext[c]).itemIds =
               <<normalizeItemId(PageGuid), normalizeItemId(DatasourceGuid)>>
        /\ authoringCall[c].query =
               <<normalizeItemId(PageGuid), normalizeItemId(DatasourceGuid),
                 toUpperCase(LocalGuid)>>

\* C11: every record processItemData returns, and the current item of the
\* report assembled from them (the sentinel when there is no record), is
\* published if it is outdated.
C11_OutdatedIsPublished ==
    (ReconcilerCalled /\ ret.st = "returned") =>
        /\ \A i \in 1..Len(ret.value) : ret.value[i].isOutdated => ret.value[i].isPublished
        /\ LET currentItem == createItemInformationResponse(ret.value).currentItem
           IN currentItem.isOutdated => currentItem.isPublished
        /\ SentinelItem.isOutdated => SentinelItem.isPublished

\* an unpublished item with a latest version next to an outdated published one
C11_Witness ==
    /\ ReconcilerCalled /\ ret.st = "returned"
    /\ Len(ret.value) = 2
    /\ ret.value[1].latestVersion = 2 /\ ~ret.value[1].isPublished
    /\ ~ret.value[1].isOutdated
    /\ ret.value[2].isPublished /\ ret.value[2].isOutdated

\* C12: versionDifference is latestVersion for an unpublished record and
\* latestVersion - publishedVersion for a published one; versions 6 and 6
\* give 0 and not outdated, 8 and 5 give 3 and outdated.
C12_VersionDifference ==
    (ReconcilerCalled /\ ret.st = "returned") =>
        \A i \in 1..Len(ret.value) :
            LET p == ret.value[i]
                authoringSlot == SlotOf(args.authoringResult, i)
                liveSlot == SlotOf(args.liveResult, i)
            IN /\ ~p.isPublished => p.versionDifference = p.latestVersion
               /\ p.isPublished =>
                      p.versionDifference = p.latestVersion - p.publishedVersion
               /\ (authoringSlot.version = 6 /\ liveSlot.version = 6) =>
                      (p.versionDifference = 0 /\ ~p.isOutdated)
               /\ (authoringSlot.version = 8 /\ liveSlot.version = 5) =>
                      (p.versionDifference = 3 /\ p.isOutdated)

\* authoring version 8, live version 5
C12_Witness ==
    /\ ReconcilerCalled /\ ret.st = "returned"
    /\ SlotOf(args.authoringResult, 1).version = 8
    /\ SlotOf(args.liveResult, 1).version = 5
    /\ ret.value[1].versionDifference = 3
    /\ ret.value[1].isOutdated

\* C13: publishedVersion is null and isPublished false exactly when the live
\* data has no item at item{i}; a live slot with version v, 0 included, gives
\* publishedVersion v and isPublished true; latestVersion is the authoring
\* version, and 0 when the authoring slot is absent.
C13_VersionsTakenAsGiven ==
    (ReconcilerCalled /\ ret.st = "returned") =>
        \A i \in 1..Len(ret.value) :
            LET p == ret.value[i]
                authoringSlot == SlotOf(args.authoringResult, i)
                liveSlot == SlotOf(args.liveResult, i)
            IN /\ p.latestVersion =
                      (IF authoringSlot.present THEN authoringSlot.version ELSE 0)
               /\ liveSlot.present =>
                      (p.publishedVersion = liveSlot.version /\ p.isPublished)
               /\ ~liveSlot.present => (p.publishedVersion = Null /\ ~p.isPublished)

\* the live slot is there with version 0 and the record is unpublished
C13_Witness ==
    /\ ReconcilerCalled /\ ret.st = "returned"
    /\ SlotOf(args.liveResult, 1).present /\ SlotOf(args.liveResult, 1).version = 0
    /\ SlotOf(args.authoringResult, 1).version = 2
    /\ ret.value[1].publishedVersion = Null
    /\ ~ret.value[1].isPublished
    /\ ret.value[1].versionDifference = 2

\* the elements of a list
Elements(list) == {list[i] : i \in 1..Len(list)}

\* C14: each canonical identifier is at most once in the walker's itemIds,
\* however often and in whatever spelling the renderings name it; and the
\* list holds every collected datasource identifier and the current item,
\* two of them being one entry only when their canonical forms are equal.
C14_WalkerDeduplicates ==
    (WalkerCalled /\ ret.value.itemIds # <<>>) =>
        LET ids == ret.value.itemIds
            collected ==
                Elements(extractDatasourcesFromPresentationDetails(
                             args.pageInfo.presentationDetails).directIds)
            current == IF Elements(ids) \subseteq collected THEN {}
                       ELSE {normalizeItemId(currentIdOf(args).v)}
        IN /\ \A i, j \in 1..Len(ids) :
                normalizeItemId(ids[i]) = normalizeItemId(ids[j]) => i = j
           /\ \A i \in 1..Len(ids) : ids[i] = normalizeItemId(ids[i])
           /\ Elements(ids) = collected \cup current
           /\ Len(ids) = Cardinality(collected \cup current)

\* one item named twice in one field, again by a second rendering in lower
\* case and again by a rendering of a placeholder
C14_Witness ==
    /\ WalkerCalled
    /\ args.kind = "object"
    /\ args.pageInfo.presentationDetails =
           PresentationObject(<<Device(<<Rendering(DsGuidTwice), RenderingLc(DsGuidLower)>>,
                                       <<Placeholder(<<Rendering(DsGuidLower)>>)>>)>>)
    /\ ret.value.itemIds = <<normalizeItemId(PageGuid), normalizeItemId(DatasourceGuid)>>

\* C15: if the page-info section of the context is absent or is no object,
\* extractItemIdsWithLocalPaths returns the empty result, whatever site-info
\* and the top level of the context hold.
C15_EmptyWithoutPageInfo ==
    (WalkerCalled /\ args.pageInfo.kind # "object") =>
        ret.value = EmptyExtraction

\* no page-info, and the identifier of site-info is returned as the only item
C15_Witness ==
    /\ WalkerCalled
    /\ args.kind = "object"
    /\ args.pageInfo = NoPageInfo
    /\ args.siteInfo.id = Str(braced(PageGuid))
    /\ args.id = Undefined
    /\ ret.value.itemIds = <<normalizeItemId(PageGuid)>>

ParserCalled == callee = "parseDatasourceValue" /\ ret.st = "returned"

\* the segments of a kind, in segment order
OfKind(segments, kinds) == SelectSeq(segments, LAMBDA x : x.kind \in kinds)

\* the identifiers the GUID segments of the value name, in canonical form
NamedIds(segments) ==
    LET guids == OfKind(segments, {"guid"})
    IN [i \in 1..Len(guids) |-> normalizeItemId(guids[i].names)]

\* a path without its leading Data/ segment
WithoutData(path) ==
    IF Len(path) >= Len(DataSegment) /\ SubSeq(path, 1, Len(DataSegment)) = DataSegment
    THEN SubSeq(path, Len(DataSegment) + 1, Len(path))
    ELSE path

\* C16 as stated: "{AAAAAAAA-BBBB-CCCC-DDDD-EEEEEEEEEEEE}|local:/Data/Text 1"
\* parses to directIds ["AAAAAAAABBBBCCCCDDDDEEEEEEEEEEEE"] and localPaths
\* ["Text 1"]; every GUID segment gives its canonical identifier and every
\* local:/ segment its path, the name behind Data/, in segment order.
C16_ParserAsStated ==
    ParserCalled =>
        /\ args.datasource = Str(DsGuidAndLocal) =>
               ret.value = [directIds |-> <<normalizeItemId(DatasourceGuid)>>,
                            localPaths |-> <<<<"T","e","x","t"," ","1">>>>]
        /\ ret.value.directIds = NamedIds(args.segments)
        /\ LET locals == OfKind(args.segments, {"local"})
           IN ret.value.localPaths =
                  [i \in 1..Len(locals) |-> WithoutData(locals[i].names)]

\* C16 amended: the same value parses to directIds
\* ["AAAAAAAABBBBCCCCDDDDEEEEEEEEEEEE"] and localPaths ["Data/Text 1"]; every
\* GUID segment gives its canonical identifier, every local:/ segment the
\* text behind "local:/" and every /sitecore/ segment its whole text, in
\* segment order; a value that is no string gives two empty lists.
C16_ParserAmended ==
    ParserCalled =>
        /\ args.datasource = Str(DsGuidAndLocal) =>
               ret.value = [directIds |-> <<normalizeItemId(DatasourceGuid)>>,
                            localPaths |-> <<TextPath>>]
        /\ ret.value.directIds = NamedIds(args.segments)
        /\ LET paths == OfKind(args.segments, {"local", "content"})
           IN ret.value.localPaths = [i \in 1..Len(paths) |-> paths[i].names]

\* the value of the example has been parsed
C16_Witness ==
    /\ ParserCalled
    /\ args.datasource = Str(DsGuidAndLocal)
    /\ ret.value.directIds = <<normalizeItemId(DatasourceGuid)>>
    /\ ret.value.localPaths = <<TextPath>>

\* C17: when the resolution call has thrown, resolveLocalDatasourcePaths has
\* returned a mapping with every input path and null for each, and the bulk
\* queries are issued with the identifier list the cycle had before.
C17_ResolverFailureKeepsList ==
    \A c \in Cycles :
        (resolveCall[c].st = "fulfilled" /\ resolveCall[c].threw) =>
            LET walked == extractItemIdsWithLocalPaths(pageContext[c]).itemIds
                mapping == resolveCall[c].value
            IN /\ {mapping[i].key : i \in 1..Len(mapping)}
                      = Elements(localPathsToResolve[c])
               /\ Len(mapping) = Cardinality(Elements(localPathsToResolve[c]))
               /\ \A i \in 1..Len(mapping) : mapping[i].value = JsNull
               /\ itemIds[c] = walked
               /\ authoringCall[c].st # "none" /\ authoringCall[c].query = walked
               /\ liveCall[c].st # "none" /\ Len(liveCall[c].query) = Len(walked)
               /\ \A i \in 1..Len(walked) :
                    normalizeItemId(liveCall[c].query[i]) = walked[i]

\* two local paths, the resolution has thrown and both bulk queries are out
\* for the page alone
C17_Witness ==
    \E c \in Cycles :
        /\ resolveCall[c].st = "fulfilled" /\ resolveCall[c].threw
        /\ localPathsToResolve[c] = <<TextPath, PlainPath>>
        /\ resolveCall[c].value = <<[key |-> TextPath, value |-> JsNull],
                                    [key |-> PlainPath, value |-> JsNull]>>
        /\ authoringCall[c] = Pending(<<normalizeItemId(PageGuid)>>)
        /\ liveCall[c].st = "pending"

\* the envelope has nested data and a populated errors array
PartialFailure(envelope) ==
    /\ envelope.kind = "object" /\ ~envelope.error /\ envelope.data = "present"
    /\ envelope.errors # <<>>

\* the envelope with its errors array emptied
WithoutErrors(envelope) ==
    IF PartialFailure(envelope) THEN [envelope EXCEPT !.errors = <<>>] ELSE envelope

\* C18: for an envelope with nested data and a non-empty errors array,
\* validation is invalid with one diagnostic per error, message by message,
\* and processItemData returns the records it returns for the same envelopes
\* with the errors arrays emptied.
C18_ErrorsKeepPartialData ==
    (ReconcilerCalled
        /\ (PartialFailure(args.authoringResult) \/ PartialFailure(args.liveResult))) =>
        /\ \A envelope \in {args.authoringResult, args.liveResult} :
             PartialFailure(envelope) =>
                LET validation == validateResponse(envelope)
                IN /\ ~validation.threw /\ ~validation.isValid
                   /\ Len(validation.errors) = Len(envelope.errors)
                   /\ \A i \in 1..Len(envelope.errors) :
                        validation.errors[i] = "GraphQL error: " \o envelope.errors[i]
        /\ ret = processItemData(WithoutErrors(args.authoringResult),
                                 WithoutErrors(args.liveResult),
                                 args.itemIds, args.currentItemId)
        /\ ret.st = "returned" =>
             \A i \in 1..Len(args.itemIds) :
                /\ PartialFailure(args.authoringResult) =>
                     ret.value[i].latestVersion =
                        (IF i <= Len(args.authoringResult.slots)
                               /\ args.authoringResult.slots[i].present
                         THEN args.authoringResult.slots[i].version ELSE 0)
                /\ (PartialFailure(args.liveResult)
                      /\ i <= Len(args.liveResult.slots)
                      /\ args.liveResult.slots[i].present
                      /\ args.liveResult.slots[i].version > 0) =>
                     ret.value[i].publishedVersion = args.liveResult.slots[i].version

\* both envelopes carry two errors and a filled first alias, and the record
\* has version 2 published as 1
C18_Witness ==
    /\ ReconcilerCalled /\ ret.st = "returned"
    /\ PartialFailure(args.authoringResult) /\ Len(args.authoringResult.errors) = 2
    /\ PartialFailure(args.liveResult) /\ Len(args.liveResult.errors) = 2
    /\ Len(ret.value) >= 1
    /\ ret.value[1].latestVersion = 2
    /\ ret.value[1].publishedVersion = 1
    /\ ret.value[1].isOutdated

AssemblerCalled == callee = "createItemInformationResponse" /\ ret.st = "returned"

\* the positions of the items flagged current
FlaggedCurrent(list) == {i \in 1..Len(list) : list[i].itemType = "current"}

\* the list without its position i
Without(list, i) ==
    [j \in 1..(Len(list) - 1) |-> IF j < i THEN list[j] ELSE list[j + 1]]

\* C19: with exactly one item flagged current, createItemInformationResponse
\* returns it as currentItem and the other items, in order, as
\* referencedItems; with none flagged, items[0] and the rest; with no items,
\* the sentinel "unknown" (latestVersion 0, publishedVersion null, neither
\* published nor outdated), no referenced items and a summary of zeros.
C19_AssemblerCases ==
    AssemblerCalled =>
        LET list == args.items
            flagged == FlaggedCurrent(list)
            response == ret.value
        IN /\ Cardinality(flagged) = 1 =>
                 \A i \in flagged :
                    /\ response.currentItem = list[i]
                    /\ response.referencedItems = Without(list, i)
           /\ (flagged = {} /\ Len(list) > 0) =>
                 /\ response.currentItem = list[1]
                 /\ response.referencedItems = Without(list, 1)
           /\ Len(list) = 0 =>
                 /\ response.currentItem.id = UnknownId
                 /\ response.currentItem.latestVersion = 0
                 /\ response.currentItem.publishedVersion = Null
                 /\ ~response.currentItem.isPublished
                 /\ ~response.currentItem.isOutdated
                 /\ response.referencedItems = <<>>
                 /\ response.summary = [totalItems |-> 0, publishedItems |-> 0,
                                        unpublishedItems |-> 0, outdatedItems |-> 0]

\* the second of three items is the only one flagged current: it is the
\* current item and the first and third are the referenced items
C19_Witness ==
    /\ AssemblerCalled
    /\ Len(args.items) = 3
    /\ FlaggedCurrent(args.items) = {2}
    /\ ret.value.currentItem.id = SampleId(2)
    /\ Len(ret.value.referencedItems) = 2
    /\ ret.value.referencedItems[1].id = SampleId(1)
    /\ ret.value.referencedItems[2].id = SampleId(3)

\* a report is published
Reported == data # NullData

\* C20: the summary of a published report counts the items published with
\* it: totalItems is their number, publishedItems and unpublishedItems are
\* the numbers of items with and without isPublished and add up to
\* totalItems, outdatedItems is the number of items with isOutdated and at
\* most publishedItems; at the end of a cycle these items are the records of
\* that cycle's identifier list.
C20_SummaryOfThisCycle ==
    Reported =>
        LET published == {i \in 1..Len(items) : items[i].isPublished}
            isOutdated == {i \in 1..Len(items) : items[i].isOutdated}
        IN /\ data.summary.totalItems = Len(items)
           /\ data.summary.publishedItems = Cardinality(published)
           /\ data.summary.unpublishedItems = Len(items) - Cardinality(published)
           /\ data.summary.outdatedItems = Cardinality(isOutdated)
           /\ data.summary.publishedItems + data.summary.unpublishedItems
                 = data.summary.totalItems
           /\ data.summary.outdatedItems <= data.summary.publishedItems
           /\ \A c \in Cycles :
                pc[c] = "done" =>
                    /\ Len(items) = Len(itemIds[c])
                    /\ \A i \in 1..Len(items) : items[i].id = itemIds[c][i]

\* a cycle started by refetchItems, so after the initial load, has published
\* a report on its one identifier, an outdated item
C20_Witness ==
    \E c \in Cycles :
        /\ Reported /\ pc[c] = "done"
        /\ pageContext[c] = NullContext
        /\ Len(itemIds[c]) = 1
        /\ data.summary = [totalItems |-> 1, publishedItems |-> 1,
                           unpublishedItems |-> 0, outdatedItems |-> 1]

\* the cycle has started and not ended
InFlight(c) == pc[c] \notin {"idle", "done"}

\* this step ends cycle c with a report
Stores(c) == InFlight(c) /\ pc'[c] = "done" /\ data' # NullData

\* C21: with overlapping cycles, the list a cycle stores is the
\* reconciliation of its own identifier list with its own authoring and live
\* envelopes: one record per identifier of its list, in order, with the
\* versions of its own envelopes' slots; and a step of one cycle changes the
\* identifier list of no other cycle.
C21_OwnListAndEnvelopes ==
    [][\A c \in OverlapCycles :
         /\ Stores(c) =>
              LET authoring == authoringCall'[c]
                  live == liveCall'[c]
              IN /\ authoring.st = "fulfilled" /\ live.st = "fulfilled"
                 /\ authoring.query = itemIds[c]
                 /\ items' = processItemData(authoring.value, live.value, itemIds[c],
                                             currentItemId[c]).value
                 /\ Len(items') = Len(itemIds[c])
                 /\ \A i \in 1..Len(items') :
                      /\ items'[i].id = itemIds[c][i]
                      /\ normalizeItemId(live.query[i]) = normalizeItemId(itemIds[c][i])
                      /\ items'[i].latestVersion = SlotOf(authoring.value, i).version
                      /\ items'[i].isPublished = (SlotOf(live.value, i).version # 0)
                 /\ data' = createItemInformationResponse(items')
         /\ (pc'[c] # pc[c] \/ resolveCall'[c] # resolveCall[c]
                \/ authoringCall'[c] # authoringCall[c] \/ liveCall'[c] # liveCall[c]) =>
              \A d \in OverlapCycles \ {c} : itemIds'[d] = itemIds[d]
      ]_vars

\* cycle 2 has stored the records of its own list while cycle 1, which works
\* on another list, is still waiting for its bulk queries: loading is false
\* although cycle 1 set it when it started
C21_Witness ==
    /\ pc[1] = "bulk" /\ pc[2] = "done"
    /\ ~loading
    /\ Len(itemIds[1]) = 2 /\ itemIds[1][1] = normalizeItemId(DatasourceGuid)
    /\ itemIds[2] = <<normalizeItemId(PageGuid)>>
    /\ Len(items) = 1 /\ items[1].id = normalizeItemId(PageGuid)
    /\ data # NullData

NormalizerCalled == callee = "formatGuidWithHyphens" /\ ret.st = "returned"

\* the letters a-z do not occur in the string, nor braces or hyphens
IsCanonical(s) ==
    \A i \in 1..Len(s) : s[i] \notin {"{", "}", "-"} /\ s[i] \notin Elements(LowerCase)

\* C22: the canonical form of the hyphenated form of the canonical form of an
\* identifier string is its canonical form, with normalizeItemId and with
\* formatGuidWithoutHyphens; a canonical form that is not 32 characters long
\* is hyphenated to itself, one of 32 characters to the 8-4-4-4-12 form.
C22_CanonicalRoundTrip ==
    NormalizerCalled =>
        /\ ret.value.compact = ret.value.canonical
        /\ ret.value.normalized = ret.value.canonical
        /\ IsCanonical(ret.value.canonical)
        /\ Len(ret.value.canonical) # 32 => ret.value.hyphenated = ret.value.canonical
        /\ Len(ret.value.canonical) = 32 =>
              /\ Len(ret.value.hyphenated) = 36
              /\ \A i \in {9, 14, 19, 24} : ret.value.hyphenated[i] = "-"
              /\ stripChars(ret.value.hyphenated, {"-"}) = ret.value.canonical

\* a braced lower-case GUID has gone through the round trip
C22_Witness ==
    /\ NormalizerCalled
    /\ args.itemId = braced(DatasourceGuid)
    /\ ret.value.hyphenated = toUpperCase(DatasourceGuid)
    /\ ret.value.compact = normalizeItemId(DatasourceGuid)

\* this step ends a chain of initializeClient in which no creation succeeded
EndsWithoutClient == chain.pc # "ended" /\ chain'.pc = "ended" /\ chain'.result # "client"

\* C23: a chain of initializeClient in which every creation fails makes
\* retryAttempts creations and ends with client null, an error, isLoading
\* false and isInitialized false.
C23_RetriesThenError ==
    [][EndsWithoutClient =>
          /\ chain'.made = opts.retryAttempts
          /\ ~xmcState'.client
          /\ xmcState'.error # NoError
          /\ ~xmcState'.isLoading
          /\ ~xmcState'.isInitialized]_vars

\* with the default of three attempts the chain has ended after one failed
\* creation, and the hook still says that it is loading, without an error
C23_Witness ==
    /\ opts.retryAttempts = DefaultRetryAttempts
    /\ chain = [pc |-> "ended", attempt |-> 2, made |-> 1, result |-> "returned"]
    /\ xmcState = [InitialState EXCEPT !.isLoading = TRUE]
    /\ ~isInitializingRef

\* C30: whenever isLoading is true, a state follows in which isLoading is
\* false and the hook either is initialized with a client or has an error.
C30_LoadingEnds ==
    xmcState.isLoading ~>
        (/\ ~xmcState.isLoading
         /\ \/ xmcState.isInitialized /\ xmcState.client
            \/ xmcState.error # NoError)

\* the first creation has failed, the retry call has returned at once and
\* nothing is left that would end the loading state
C30_Witness ==
    /\ xmcState.isLoading /\ xmcState.error = NoError
    /\ chain.pc = "ended" /\ chain.result = "returned"
    /\ ~ENABLED (\E created \in BOOLEAN : CreateSettle(created))
    /\ ~ENABLED RetryDelayOver

\* the endpoint has answered the call with data and without error
RespondedWell(request) ==
    /\ request.st = "fulfilled"
    /\ request.value.kind = "object" /\ ~request.value.error
    /\ request.value.data = "present" /\ request.value.errors = <<>>

\* the endpoint has answered the call otherwise
RespondedBadly(request) == request.st = "fulfilled" /\ ~RespondedWell(request)

\* C24: useSpecificItemsInformation with an initialized client and a
\* non-empty list, when its fetch has ended, the live endpoint has answered
\* well and the authoring endpoint has given no other answer, has loading
\* false, error null, one record per identifier in order, and a report whose
\* current item is the record of the first identifier.
C24_SpecificItemsReport ==
    \A c \in Cycles :
        (/\ isInitialized /\ pc[c] = "done" /\ Len(itemIds[c]) > 0
         /\ RespondedWell(liveCall[c])
         /\ ~RespondedBadly(authoringCall[c]) /\ authoringCall[c].st # "pending") =>
            /\ ~loading
            /\ error = NullError
            /\ Len(items) = Len(itemIds[c])
            /\ \A i \in 1..Len(items) : items[i].id = itemIds[c][i]
            /\ data # NullData
            /\ data.currentItem.id = itemIds[c][1]

\* the fetch for two identifiers has ended with the error of the authoring
\* query, which was never sent, while the live endpoint has answered for both
C24_Witness ==
    \E c \in Cycles :
        /\ isInitialized /\ pc[c] = "done"
        /\ itemIds[c] = SampleIds(2)
        /\ RespondedWell(liveCall[c])
        /\ liveCall[c].value.slots[1].present /\ liveCall[c].value.slots[2].present
        /\ authoringCall[c] = Rejected(SampleIds(2), TokenRequired)
        /\ error = TokenRequired /\ data = NullData /\ items = <<>> /\ ~loading

\* C25: in every state of useItemInformation, with overlapping cycles too,
\* an error comes with data null and no items.
C25_ErrorWithoutReport ==
    error # NullError => (data = NullData /\ items = <<>>)

\* one cycle has failed and another, started before that, has then stored
\* its report: the error of the first is shown next to the report
C25_Witness ==
    /\ error = "pages.context failed"
    /\ data # NullData /\ Len(items) = 1
    /\ \A c \in OverlapCycles : pc[c] = "done"
    /\ ~loading

\* C26: loading is true in every state in which a fetch cycle has started
\* and not ended, with overlapping cycles too.
C26_LoadingWhileInFlight ==
    (\E c \in OverlapCycles : InFlight(c)) => loading

\* cycle 1 has ended in an error and has set loading to false while cycle 2
\* is waiting for application.context
C26_Witness ==
    /\ pc[1] = "done" /\ pc[2] = "appContext"
    /\ error # NullError
    /\ ~loading

\* C28: data is null exactly when items is empty, and a report comes with
\* the list it was assembled from: its summary counts the items, and its
\* current item is one of them.
C28_ReportWithItsItems ==
    /\ (data = NullData) <=> (items = <<>>)
    /\ Reported =>
          /\ data.summary.totalItems = Len(items)
          /\ \E i \in 1..Len(items) : data.currentItem = items[i]
          /\ \A i \in 1..Len(data.referencedItems) :
                \E j \in 1..Len(items) : data.referencedItems[i] = items[j]

\* a report on a page and its resolved datasource item is shown while the
\* next cycle is under way
C28_Witness ==
    /\ Reported /\ Len(items) = 2
    /\ data.currentItem = items[1] /\ data.referencedItems = <<items[2]>>
    /\ \E c \in OverlapCycles : InFlight(c)
    /\ loading

\* how often the record is in the list
Occurrences(list, record) == Cardinality({i \in 1..Len(list) : list[i] = record})

\* C29: the current item and the referenced items of a report are the
\* records of its item list, each as often as the list has it, so that
\* totalItems = 1 + length(referencedItems); also when the identifier list
\* repeats the current item's identifier.
C29_ReportPartitionsItems ==
    Reported =>
        LET shown == <<data.currentItem>> \o data.referencedItems
        IN /\ Len(items) > 0
           /\ \A i \in 1..Len(items) :
                Occurrences(shown, items[i]) = Occurrences(items, items[i])
           /\ data.summary.totalItems = 1 + Len(data.referencedItems)

\* refetchItems was called with the same identifier twice: both records are
\* flagged current, one is the current item and the other is in no list
C29_Witness ==
    /\ Reported /\ Len(items) = 2
    /\ items[1].id = SampleId(3) /\ items[2].id = SampleId(3)
    /\ items[1].itemType = "current" /\ items[2].itemType = "current"
    /\ data.referencedItems = <<>>
    /\ data.summary.totalItems = 2

\* C27: a fetch cycle that has started ends, whatever its requests answer,
\* and when it has ended loading is false.
C27_LoadingEventuallyFalse ==
    \A c \in Cycles : InFlight(c) ~> (pc[c] = "done" /\ ~loading)

\* a cycle has ended with a report although its resolver call and its
\* authoring query have both failed
C27_Witness ==
    \E c \in Cycles :
        /\ pc[c] = "done" /\ ~loading
        /\ resolveCall[c].st = "fulfilled" /\ resolveCall[c].threw
        /\ authoringCall[c].st = "fulfilled" /\ authoringCall[c].value = ErrorResult
        /\ liveCall[c].st = "fulfilled"
        /\ Reported

====
